---- MODULE Spec2Model ----
(***************************************************************************)
(* Model of the daily check-in tracker (static/script.js, class            *)
(* WellnessTracker, first copy in the file unless a definition says        *)
(* otherwise): today's DayRecord, the optimistic cache in localStorage,    *)
(* the remote write of a level, the reconcile with the backend, the        *)
(* streak walk, the calendar classification and the achievement ledger.    *)
(*                                                                         *)
(* Dates are integers (one per calendar day of the reference timezone);    *)
(* getDateString() is the variable now.  A level that was never written    *)
(* (JavaScript undefined) is a key missing from the record's levels.       *)
(***************************************************************************)
EXTENDS Integers, Sequences, FiniteSets, TLC

(***************************************************************************)
(* Bounds of the model.                                                    *)
(***************************************************************************)
MaxEvents == 2
MaxInFlight == 2
MaxHistoryDays == 2

(***************************************************************************)
(* Program constants.                                                      *)
(***************************************************************************)
NumLevels == 3
AllTasksCount == 3
MonthStreak == 30
WeekStreak == 7
LookbackDays == 365
GridFullCount == 3

Levels == 1..NumLevels

FallbackTasks == <<"reading", "exercise", "caring">>

Users == <<"alice", "bob">>

(* The catalog the config collaborator serves: user -> ordered task ids.   *)
ServerConfig ==
  [alice |-> <<"reading", "exercise", "caring">>,
   bob   |-> <<"reading", "exercise">>]

TaskIds == {"reading", "exercise", "caring"}

(* taskConfig.levels of the served config: the star buttons a card has;    *)
(* a task without levels gets the three default buttons.                   *)
ServedLevels == [reading |-> 1..NumLevels, exercise |-> {1}, caring |-> {1}]

DefaultLevels == [k \in TaskIds |-> 1..NumLevels]

(* Canonical key order of a JSON object of tasks.                          *)
KeyOrder == <<"reading", "exercise", "caring">>

NoData == [none |-> TRUE]

Range(s) == {s[i] : i \in DOMAIN s}

Includes(s, x) == \E i \in DOMAIN s : s[i] = x

(* Array.prototype.splice(indexOf(x), 1): drops the first occurrence.      *)
RECURSIVE RemoveFirst(_, _)
RemoveFirst(s, x) ==
  IF s = <<>> THEN <<>>
  ELSE IF Head(s) = x THEN Tail(s)
  ELSE <<Head(s)>> \o RemoveFirst(Tail(s), x)

(* dayData[task] with undefined read as "no level".                        *)
HasLevel(day, task) == task \in DOMAIN day.levels

(* todayData[task] || 0                                                    *)
LevelOr0(day, task) == IF HasLevel(day, task) THEN day.levels[task] ELSE 0

(* dayData[task] > 0, false for undefined                                  *)
Positive(levels, task) == task \in DOMAIN levels /\ levels[task] > 0

VARIABLES
  now,          \* the calendar date getDateString() returns
  pc,           \* position of init() / switchUser(): which await is pending
  users,        \* this.users: the user tabs
  currentUser,  \* this.currentUser
  tasks,        \* this.tasks: catalog of the current user, in order
  taskLevels,   \* this.taskLevels: the level buttons of each task
  taskData,     \* this.taskData
  storage,      \* localStorage: user -> saved taskData or NoData
  inflight,     \* remote writes awaiting their response
  shown,        \* achievement notifications shown so far, <<user, id>>
  events,       \* number of user and clock events so far
  lastOp,       \* the operation that produced this state, with its inputs
  input,        \* inputs drawn for a function checked on its own
  output        \* what that function returned

vars == <<now, pc, users, currentUser, tasks, taskLevels, taskData, storage, inflight,
          shown, events, lastOp, input, output>>

tracker == <<now, pc, users, currentUser, tasks, taskLevels, taskData, storage,
             inflight, shown, events, lastOp>>

harness == <<input, output>>

(***************************************************************************)
(* Data: a DayRecord is [levels, completed]; taskData is                   *)
(* [currentDate, daily, streak, achievements].                             *)
(***************************************************************************)
EmptyDay == [levels |-> <<>>, completed |-> <<>>]

ZeroLevels(keys) == [k \in keys |-> 0]

(* owner is not a field of the JavaScript object: it tags the data with    *)
(* the user it was created for, so that its way through localStorage can   *)
(* be followed.                                                            *)
getDefaultData(user, today, catalog) ==
  [currentDate  |-> today,
   daily        |-> (today :> [levels |-> ZeroLevels(Range(catalog)),
                               completed |-> <<>>]),
   streak       |-> 0,
   achievements |-> <<>>,
   owner        |-> user]

loadData(store, user, today, catalog) ==
  IF store[user] # NoData THEN store[user]
  ELSE getDefaultData(user, today, catalog)

saveData(store, user, td) == [store EXCEPT ![user] = td]

(***************************************************************************)
(* Toggle rule of setTaskLevel: current === level ? 0 : level, where       *)
(* current is undefined (never equal) when the key is missing.             *)
(***************************************************************************)
(* A mutant of toggleLevel: the clicked level is added to the current one.  *)
toggleLevelAdditive(current, level) ==
  IF current = level THEN current + level
  ELSE IF current > 0 THEN current + level ELSE level

toggleLevel(current, level) == IF current = level THEN 0 ELSE level

Undefined == -1

currentLevelOf(day, task) ==
  IF HasLevel(day, task) THEN day.levels[task] ELSE Undefined

(* Maintenance of the completed array after a level was written.           *)
updateCompleted(completed, task, newLevel) ==
  IF newLevel > 0 /\ ~Includes(completed, task) THEN Append(completed, task)
  ELSE IF newLevel = 0 /\ Includes(completed, task)
       THEN RemoveFirst(completed, task)
  ELSE completed

(* this.taskData.daily[today][task] = newLevel, then the completed array.  *)
writeLevel(day, task, newLevel) ==
  [levels    |-> (task :> newLevel) @@ day.levels,
   completed |-> updateCompleted(day.completed, task, newLevel)]
(***************************************************************************)
(* Reconcile: the merge syncWithBackend makes of a status object           *)
(* {task: level} into today's record.  Both copies of the file build a     *)
(* fresh completed array from the keys of the status alone and spread it   *)
(* over the old record.                                                    *)
(***************************************************************************)
statusCompleted(status) ==
  SelectSeq(KeyOrder, LAMBDA k : k \in DOMAIN status /\ status[k] > 0)

(* A mutant of syncMerge: a local level wins over the served one.           *)
syncMergeLocalWins(day, status) ==
  [levels    |-> day.levels @@ status,
   completed |-> statusCompleted(status)]

syncMerge(day, status) ==
  [levels    |-> status @@ day.levels,
   completed |-> statusCompleted(status)]

dayOrEmpty(td, date) ==
  IF date \in DOMAIN td.daily THEN td.daily[date] ELSE EmptyDay

(* Responses of GET status/today: the request fails, the answer is not OK, *)
(* the body has no status, or it carries a status object.                  *)
(* A mutant of syncWithBackend: a failed request is merged as an empty     *)
(* status.                                                                 *)
syncWithBackendMergesFailure(td, today, resp) ==
  [td EXCEPT !.daily = (today :> syncMerge(dayOrEmpty(td, today), resp.status))
                       @@ td.daily]

syncWithBackend(td, today, resp) ==
  IF resp.kind = "status"
  THEN [td EXCEPT !.daily = (today :> syncMerge(dayOrEmpty(td, today), resp.status))
                            @@ td.daily]
  ELSE td

(***************************************************************************)
(* Streak walk: from yesterday backward, at most LookbackDays days, stop   *)
(* at the first day that is missing or has a task not above 0.             *)
(***************************************************************************)
allTasksCompleted(levels, catalog) ==
  \A i \in DOMAIN catalog : Positive(levels, catalog[i])

(* The iteration i of the loop ends it: no record for the day, or a task   *)
(* of the catalog not above 0.                                             *)
breaksAt(history, today, catalog, i) ==
  \/ (today - i) \notin DOMAIN history
  \/ ~allTasksCompleted(history[today - i], catalog)

(* A mutant of streakWalk: a failing day is passed over and the count goes *)
(* on behind it.                                                           *)
streakWalkCountsBehind(history, today, catalog) ==
  Cardinality({i \in 1..LookbackDays :
                 ~breaksAt(history, today, catalog, i)})

(* A mutant of streakWalk: a missing day is skipped instead of ending the  *)
(* count.                                                                  *)
streakWalkSkipsMissing(history, today, catalog) ==
  LET incomplete(i) == /\ (today - i) \in DOMAIN history
                       /\ ~allTasksCompleted(history[today - i], catalog)
      counted(i) == /\ ~breaksAt(history, today, catalog, i)
                    /\ \A j \in 1..(i - 1) : ~incomplete(j)
  IN Cardinality({i \in 1..LookbackDays : counted(i)})

(* A mutant of streakWalk: the loop has no bound of 365 iterations and goes *)
(* on as long as the days qualify.                                         *)
streakWalkNoBound(history, today, catalog) ==
  LET span == 1..(LookbackDays + MaxHistoryDays + 1)
  IN IF \E i \in span : breaksAt(history, today, catalog, i)
     THEN (CHOOSE i \in span :
             /\ breaksAt(history, today, catalog, i)
             /\ \A j \in 1..(i - 1) : ~breaksAt(history, today, catalog, j)) - 1
     ELSE LookbackDays + MaxHistoryDays + 1

(* for (i = 1; i <= 365; i++): streakCount is the number of iterations     *)
(* before the first one that breaks, or 365 when none does.                *)
streakWalk(history, today, catalog) ==
  IF \E i \in 1..LookbackDays : breaksAt(history, today, catalog, i)
  THEN (CHOOSE i \in 1..LookbackDays :
          /\ breaksAt(history, today, catalog, i)
          /\ \A j \in 1..(i - 1) : ~breaksAt(history, today, catalog, j)) - 1
  ELSE LookbackDays

(* history: date -> (task -> level), as GET history returns it.            *)
calculateTrueStreakRemote(history, today, catalog) ==
  streakWalk(history, today, catalog)

localHistory(td) == [d \in DOMAIN td.daily |-> td.daily[d].levels]

(* A mutant of calculateTrueStreakFromLocal: the local walk starts at      *)
(* today instead of yesterday.                                             *)
calculateTrueStreakFromLocalStartsToday(td, today, catalog) ==
  streakWalk(localHistory(td), today + 1, catalog)

calculateTrueStreakFromLocal(td, today, catalog) ==
  streakWalk(localHistory(td), today, catalog)

(* resp is the answer of GET history: a failure falls back to the local    *)
(* day map.                                                                *)
calculateTrueStreak(td, today, catalog, resp) ==
  IF resp.kind = "history"
  THEN calculateTrueStreakRemote(resp.history, today, catalog)
  ELSE calculateTrueStreakFromLocal(td, today, catalog)

(***************************************************************************)
(* Day rollover: startNewDay stores the streak, creates the record of the  *)
(* new day with the three built-in keys and moves currentDate.             *)
(***************************************************************************)
startNewDay(td, today, catalog, resp) ==
  [td EXCEPT
     !.streak = calculateTrueStreak(td, today, catalog, resp),
     !.daily = (today :> [levels |-> ZeroLevels(Range(FallbackTasks)),
                          completed |-> <<>>]) @@ td.daily,
     !.currentDate = today]

checkNewDay(td, today, catalog, resp) ==
  IF td.currentDate # today THEN startNewDay(td, today, catalog, resp) ELSE td
(***************************************************************************)
(* Achievements.  The ledger is taskData.achievements; an evaluation       *)
(* returns the new ledger and the notifications it showed.                 *)
(***************************************************************************)
AchievementTable == {"first_star", "all_tasks", "month_streak"}

RECURSIVE SumLevels(_, _)
SumLevels(day, catalog) ==
  IF catalog = <<>> THEN 0
  ELSE LevelOr0(day, Head(catalog)) + SumLevels(day, Tail(catalog))

(* ev is [ledger, fired]; pushes id and shows it unless already a member.  *)
triggerAchievement(ev, id) ==
  IF id \in AchievementTable /\ ~Includes(ev.ledger, id)
  THEN [ledger |-> Append(ev.ledger, id), fired |-> Append(ev.fired, id)]
  ELSE ev

(* A mutant of checkAchievements: fires without looking at the ledger.     *)
checkAchievementsNoMembershipTest(ledger, day, streak, catalog) ==
  LET push(ev, id) == [ledger |-> Append(ev.ledger, id),
                       fired |-> Append(ev.fired, id)]
      e0 == [ledger |-> ledger, fired |-> <<>>]
      e1 == IF SumLevels(day, catalog) > 0 THEN push(e0, "first_star") ELSE e0
      e2 == IF Len(day.completed) = AllTasksCount THEN push(e1, "all_tasks")
            ELSE e1
      e3 == IF streak >= MonthStreak THEN push(e2, "month_streak") ELSE e2
  IN e3

checkAchievements(ledger, day, streak, catalog) ==
  LET e0 == [ledger |-> ledger, fired |-> <<>>]
      e1 == IF SumLevels(day, catalog) > 0 /\ ~Includes(e0.ledger, "first_star")
            THEN triggerAchievement(e0, "first_star") ELSE e0
      e2 == IF Len(day.completed) = AllTasksCount /\ ~Includes(e1.ledger, "all_tasks")
            THEN triggerAchievement(e1, "all_tasks") ELSE e1
      e3 == IF streak >= MonthStreak /\ ~Includes(e2.ledger, "month_streak")
            THEN triggerAchievement(e2, "month_streak") ELSE e2
  IN e3

(* Tail of both branches of setTaskLevel that write: the level and the     *)
(* completed array of the day captured at the call, then saveData, then    *)
(* checkAchievements on the record of the current date.  A missing record  *)
(* raises a TypeError at the point it is read and ends the handler there.  *)
applyWrite(td, w, today, catalog) ==
  IF w.today \notin DOMAIN td.daily THEN [td |-> td, fired |-> <<>>, saved |-> FALSE]
  ELSE
    LET td1 == [td EXCEPT !.daily[w.today] = writeLevel(@, w.task, w.newLevel)]
    IN IF today \notin DOMAIN td1.daily
       THEN [td |-> td1, fired |-> <<>>, saved |-> TRUE]
       ELSE LET ev == checkAchievements(td1.achievements, td1.daily[today],
                                        td1.streak, catalog)
            IN [td |-> [td1 EXCEPT !.achievements = ev.ledger],
                fired |-> ev.fired, saved |-> TRUE]

(* What the response handler of setTaskLevel does with each outcome:       *)
(* "success" is an OK answer with success = true, "rejected" an OK answer  *)
(* with success = false, "error" a failed request or a non-OK status.      *)
Outcomes == {"success", "rejected", "error"}

(* A mutant of resolveWrite: a failed request leaves the record alone.     *)
resolveWriteDropsOnError(td, w, outcome, today, catalog) ==
  IF outcome # "success" THEN [td |-> td, fired |-> <<>>, saved |-> FALSE]
  ELSE applyWrite(td, w, today, catalog)

resolveWrite(td, w, outcome, today, catalog) ==
  IF outcome = "rejected" THEN [td |-> td, fired |-> <<>>, saved |-> FALSE]
  ELSE applyWrite(td, w, today, catalog)
(***************************************************************************)
(* Inputs from the collaborators.                                          *)
(***************************************************************************)
PartialMaps(keys, vals) == UNION {[ks -> vals] : ks \in SUBSET keys}

(* The status objects served in the model: every task, some tasks, none;   *)
(* levels of zero and above zero.                                          *)
StatusInputs ==
  {s \in PartialMaps(TaskIds, {0, 2}) :
     \/ DOMAIN s = {}
     \/ DOMAIN s = {"reading"}
     \/ DOMAIN s = TaskIds /\ s["exercise"] = s["caring"]}

SyncResponses ==
  {[kind |-> k, status |-> <<>>] : k \in {"error", "notok", "nostatus"}}
  \cup {[kind |-> "status", status |-> st] : st \in StatusInputs}

(* A history whose n days before today have every built-in task at 1.      *)
CompleteDays(n, today) ==
  [d \in (today - n)..(today - 1) |-> [k \in TaskIds |-> 1]]

HistoryResponses(today) ==
  {[kind |-> "error", history |-> <<>>]}
  \cup {[kind |-> "history", history |-> CompleteDays(n, today)] :
          n \in {0, 1, MonthStreak}}

ConfigResponses == {"error", "alice", "bob"}

Op(op, arg) == [op |-> op, arg |-> arg]

(* The call whose response was handled in the step just before, if any:    *)
(* kept with a new call to tell which call it directly follows.            *)
NoCall == [id |-> 0]

previousCall(op) ==
  IF op.op = "resolve"
  THEN [id |-> op.arg.w.id, user |-> op.arg.w.user, task |-> op.arg.w.task,
        level |-> op.arg.w.level, currentLevel |-> op.arg.w.currentLevel,
        newLevel |-> op.arg.w.newLevel, today |-> op.arg.w.today,
        outcome |-> op.arg.outcome]
  ELSE NoCall

Showings(user, fired) == [i \in DOMAIN fired |-> <<user, fired[i]>>]

(***************************************************************************)
(* The state after construction: the constructor loads the data of         *)
(* 'alice' with an empty catalog and init() is waiting for the config.     *)
(***************************************************************************)
TrackerInit ==
  /\ now = 1
  /\ pc = "loadConfig"
  /\ users = {}
  /\ currentUser = "alice"
  /\ tasks = <<>>
  /\ taskLevels = <<>>
  /\ storage = [u \in Range(Users) |-> NoData]
  /\ taskData = loadData([u \in Range(Users) |-> NoData], "alice", 1, <<>>)
  /\ inflight = {}
  /\ shown = <<>>
  /\ events = 0
  /\ lastOp = Op("init", <<>>)

NoOutput == [kind |-> "none"]

Init ==
  /\ TrackerInit
  /\ input = <<>>
  /\ output = NoOutput

(* A mutant of LoadConfig: a failed request leaves the catalog as the       *)
(* constructor made it.                                                    *)
LoadConfigNoFallback ==
  /\ pc = "loadConfig"
  /\ \E r \in ConfigResponses :
       /\ IF r = "error"
          THEN /\ users' = {"alice"}
               /\ currentUser' = "alice"
               /\ tasks' = <<>>
               /\ taskLevels' = <<>>
          ELSE /\ users' = Range(Users)
               /\ currentUser' = r
               /\ tasks' = ServerConfig[r]
               /\ taskLevels' = ServedLevels
       /\ lastOp' = Op("loadConfig", r)
  /\ pc' = "checkNewDay"
  /\ UNCHANGED <<now, taskData, storage, inflight, shown, events, harness>>

(* loadConfig and setCurrentUser: the served config, or the fallback.      *)
LoadConfig ==
  /\ pc = "loadConfig"
  /\ \E r \in ConfigResponses :
       /\ IF r = "error"
          THEN /\ users' = {"alice"}
               /\ currentUser' = "alice"
               /\ tasks' = FallbackTasks
               /\ taskLevels' = DefaultLevels
          ELSE /\ users' = Range(Users)
               /\ currentUser' = r
               /\ tasks' = ServerConfig[r]
               /\ taskLevels' = ServedLevels
       /\ lastOp' = Op("loadConfig", r)
  /\ pc' = "checkNewDay"
  /\ UNCHANGED <<now, taskData, storage, inflight, shown, events, harness>>

(* await this.checkNewDay() of init and switchUser.                        *)
CheckNewDay ==
  /\ pc = "checkNewDay"
  /\ \E resp \in HistoryResponses(now) :
       /\ taskData' = checkNewDay(taskData, now, tasks, resp)
       /\ lastOp' = Op("checkNewDay", resp)
  /\ storage' = IF taskData.currentDate # now
                THEN saveData(storage, currentUser, taskData')
                ELSE storage
  /\ pc' = "sync"
  /\ UNCHANGED <<now, users, currentUser, tasks, taskLevels, inflight, shown,
                 events, harness>>

(* await this.syncWithBackend() of init and switchUser.                    *)
Sync ==
  /\ pc = "sync"
  /\ \E resp \in SyncResponses :
       /\ taskData' = syncWithBackend(taskData, now, resp)
       /\ storage' = IF resp.kind = "status"
                     THEN saveData(storage, currentUser, taskData')
                     ELSE storage
       /\ lastOp' = IF resp.kind = "status" THEN Op("sync", resp.status)
                    ELSE Op("syncFailed", <<>>)
  /\ pc' = "idle"
  /\ UNCHANGED <<now, users, currentUser, tasks, taskLevels, inflight, shown,
                 events, harness>>

(* switchUser up to its first await.                                       *)
SwitchUser ==
  /\ pc = "idle"
  /\ events < MaxEvents
  /\ \E u \in users \ {currentUser} :
       /\ currentUser' = u
       /\ tasks' = ServerConfig[u]
       /\ taskLevels' = ServedLevels
       /\ taskData' = loadData(storage, u, now, ServerConfig[u])
       /\ lastOp' = Op("switchUser", u)
  /\ pc' = "checkNewDay"
  /\ events' = events + 1
  /\ UNCHANGED <<now, users, storage, inflight, shown, harness>>

(* The calendar date of the reference timezone advances.                   *)
Tick ==
  /\ events < MaxEvents
  /\ now' = now + 1
  /\ events' = events + 1
  /\ lastOp' = Op("tick", <<>>)
  /\ UNCHANGED <<pc, users, currentUser, tasks, taskLevels, taskData, storage,
                 inflight, shown, harness>>

(* handleStarClick -> setTaskLevel up to the fetch: reads the current      *)
(* level, computes the new one and sends it.                               *)
Click ==
  /\ pc # "loadConfig"
  /\ now \in DOMAIN taskData.daily
  /\ Cardinality(inflight) < MaxInFlight
  /\ events < MaxEvents
  /\ \E i \in DOMAIN tasks, level \in Levels :
       LET cur == currentLevelOf(taskData.daily[now], tasks[i])
           w == [id |-> events + 1, user |-> currentUser, task |-> tasks[i],
                 level |-> level, currentLevel |-> cur,
                 newLevel |-> toggleLevel(cur, level), today |-> now,
                 prev |-> previousCall(lastOp)]
       IN /\ level \in taskLevels[tasks[i]]
          /\ inflight' = inflight \cup {w}
          /\ lastOp' = Op("click", w.id)
  /\ events' = events + 1
  /\ UNCHANGED <<now, pc, users, currentUser, tasks, taskLevels, taskData,
                 storage, shown, harness>>

(* The response of the remote write arrives.                               *)
Resolve ==
  \E w \in inflight, outcome \in Outcomes :
    LET r == resolveWrite(taskData, w, outcome, now, tasks)
    IN /\ taskData' = r.td
       /\ storage' = IF r.saved THEN saveData(storage, currentUser, r.td)
                     ELSE storage
       /\ shown' = shown \o Showings(currentUser, r.fired)
       /\ inflight' = inflight \ {w}
       /\ lastOp' = Op("resolve", [w |-> w, outcome |-> outcome])
       /\ UNCHANGED <<now, pc, users, currentUser, tasks, taskLevels, events,
                      harness>>

Next ==
  \/ LoadConfig
  \/ CheckNewDay
  \/ Sync
  \/ SwitchUser
  \/ Tick
  \/ Click
  \/ Resolve

Spec == Init /\ [][Next]_vars

(* init() goes on after each of its awaits: every request it waits for is  *)
(* answered or fails, and both ways are handled.                           *)
FairSpec ==
  Spec /\ WF_vars(LoadConfig) /\ WF_vars(CheckNewDay) /\ WF_vars(Sync)

(***************************************************************************)
(* The page is loaded again: a new WellnessTracker is constructed over the *)
(* localStorage the previous one left.  The constructor loads the data of  *)
(* 'alice' with an empty catalog; the continuations of the requests that   *)
(* were pending belong to the old page and never run.                      *)
(***************************************************************************)
Reload ==
  /\ events < MaxEvents
  /\ pc' = "loadConfig"
  /\ users' = {}
  /\ currentUser' = "alice"
  /\ tasks' = <<>>
  /\ taskLevels' = <<>>
  /\ taskData' = loadData(storage, "alice", now, <<>>)
  /\ inflight' = {}
  /\ events' = events + 1
  /\ lastOp' = Op("reload", <<>>)
  /\ UNCHANGED <<now, storage, shown, harness>>

SessionNext == Next \/ Reload

SessionSpec == Init /\ [][SessionNext]_vars

(***************************************************************************)
(* Notes.  The note area of a task card is [content, mode, cancel]: the    *)
(* text of the note shown, whether the display or the input is visible,    *)
(* and whether the cancel button is.  It lives in the page only; the note  *)
(* itself is kept by the remote store.                                     *)
(***************************************************************************)
NoteTexts == {"", "a", "b"}

NoNote == [content |-> "", mode |-> "input", cancel |-> FALSE]

updateNoteDisplay(area, note) ==
  [content |-> note,
   mode    |-> IF note # "" THEN "display" ELSE "input",
   cancel  |-> FALSE]

(* note is textarea.value.trim(); the display is updated only when the     *)
(* answer is OK and carries success = true.                                *)
handleNoteSave(area, note, outcome) ==
  IF outcome = "success" THEN updateNoteDisplay(area, note) ELSE area

handleNoteEdit(area) == [area EXCEPT !.mode = "input", !.cancel = TRUE]

handleNoteCancel(area) ==
  [area EXCEPT !.cancel = FALSE,
               !.mode = IF area.content # "" THEN "display" ELSE @]

(* loadTaskNotes has shown the notes the store holds: none, or a note on   *)
(* every task.                                                             *)
NoteInit ==
  /\ TrackerInit
  /\ \E n \in {"", "a"} :
       input = [kind |-> "notes",
                area |-> [t \in TaskIds |-> updateNoteDisplay(NoNote, n)]]
  /\ output = NoOutput

(* A mutant of NoteSave: a saved note marks the task as done for the day.  *)
NoteSaveCompletesTask ==
  /\ pc # "loadConfig"
  /\ events < MaxEvents
  /\ now \in DOMAIN taskData.daily
  /\ \E i \in DOMAIN tasks, note \in NoteTexts, outcome \in Outcomes :
       /\ input.area[tasks[i]].mode = "input"
       /\ input' = [input EXCEPT
                      !.area[tasks[i]] = handleNoteSave(@, note, outcome)]
       /\ taskData' = [taskData EXCEPT
                         !.daily[now].completed =
                            IF Includes(@, tasks[i]) THEN @
                            ELSE Append(@, tasks[i])]
       /\ lastOp' = Op("noteSave", [task |-> tasks[i], note |-> note,
                                    outcome |-> outcome])
  /\ events' = events + 1
  /\ UNCHANGED <<now, pc, users, currentUser, tasks, taskLevels, storage,
                 inflight, shown, output>>

(* The save button of a note, with the answer of POST .../task/note.       *)
NoteSave ==
  /\ pc # "loadConfig"
  /\ events < MaxEvents
  /\ \E i \in DOMAIN tasks, note \in NoteTexts, outcome \in Outcomes :
       /\ input.area[tasks[i]].mode = "input"
       /\ input' = [input EXCEPT
                      !.area[tasks[i]] = handleNoteSave(@, note, outcome)]
       /\ lastOp' = Op("noteSave", [task |-> tasks[i], note |-> note,
                                    outcome |-> outcome])
  /\ events' = events + 1
  /\ UNCHANGED <<now, pc, users, currentUser, tasks, taskLevels, taskData,
                 storage, inflight, shown, output>>

NoteEdit ==
  /\ pc # "loadConfig"
  /\ events < MaxEvents
  /\ \E i \in DOMAIN tasks :
       /\ input.area[tasks[i]].mode = "display"
       /\ input' = [input EXCEPT !.area[tasks[i]] = handleNoteEdit(@)]
       /\ lastOp' = Op("noteEdit", [task |-> tasks[i]])
  /\ events' = events + 1
  /\ UNCHANGED <<now, pc, users, currentUser, tasks, taskLevels, taskData,
                 storage, inflight, shown, output>>

NoteCancel ==
  /\ pc # "loadConfig"
  /\ events < MaxEvents
  /\ \E i \in DOMAIN tasks :
       /\ input.area[tasks[i]].cancel
       /\ input' = [input EXCEPT !.area[tasks[i]] = handleNoteCancel(@)]
       /\ lastOp' = Op("noteCancel", [task |-> tasks[i]])
  /\ events' = events + 1
  /\ UNCHANGED <<now, pc, users, currentUser, tasks, taskLevels, taskData,
                 storage, inflight, shown, output>>

NoteNext == Next \/ NoteSave \/ NoteEdit \/ NoteCancel

NoteSpec == NoteInit /\ [][NoteNext]_vars
(***************************************************************************)
(* The toggle rule on its own: setTaskLevel of both variants of the        *)
(* tracker and handleActivityStarClick, applied to drawn inputs.           *)
(***************************************************************************)
Max(S) == CHOOSE x \in S : \A y \in S : y <= x

(* The stars of one activity that carry the class 'active':                *)
(* updateTaskActivityUI marks every button whose level is not above the    *)
(* level of the activity.                                                  *)
updateTaskActivityUI(buttons, level) == {b \in buttons : b <= level}

(* ui: activity -> [buttons, active]; the handler looks at the star-rating *)
(* of the clicked button alone.                                            *)
handleActivityStarClick(ui, activity, level) ==
  LET active == ui[activity].active
      currentLevel == IF active = {} THEN 0 ELSE Max(active)
  IN IF currentLevel = level THEN 0 ELSE level

(* The new level setTaskLevel computes from today's record.                *)
setTaskLevelNewLevel(day, task, level) ==
  toggleLevel(currentLevelOf(day, task), level)

(* setTaskLevel of the local-only variant: the record after the call.      *)
setTaskLevelLocal(day, task, level) ==
  LET currentLevel == currentLevelOf(day, task)
      newLevel == IF currentLevel = level THEN 0 ELSE level
      completed == IF newLevel > 0 /\ ~Includes(day.completed, task)
                   THEN Append(day.completed, task)
                   ELSE IF newLevel = 0 /\ Includes(day.completed, task)
                        THEN RemoveFirst(day.completed, task)
                   ELSE day.completed
  IN [levels |-> (task :> newLevel) @@ day.levels, completed |-> completed]

Activities == {"a1", "a2"}

ActivityStates ==
  {[buttons |-> b, level |-> l, active |-> updateTaskActivityUI(b, l)] :
     b \in {{1}, {1, 2}, Levels}, l \in 0..NumLevels}

TaskToggleInputs ==
  {[kind |-> "task", day |-> [levels |-> m, completed |-> statusCompleted(m)],
    task |-> t, level |-> l] :
     m \in PartialMaps(TaskIds, 0..NumLevels), t \in TaskIds, l \in Levels}

ActivityToggleInputs ==
  {i \in [kind : {"activity"}, ui : [Activities -> ActivityStates],
          activity : Activities, level : Levels] :
     /\ i.level \in i.ui[i.activity].buttons
     /\ \A a \in Activities : i.ui[a].level \in {0} \cup i.ui[a].buttons}

ToggleInit ==
  /\ TrackerInit
  /\ input \in TaskToggleInputs \cup ActivityToggleInputs
  /\ output = NoOutput

ToggleTask ==
  /\ input.kind = "task"
  /\ output = NoOutput
  /\ output' = [kind |-> "task",
                newLevel |-> setTaskLevelNewLevel(input.day, input.task,
                                                  input.level)]
  /\ UNCHANGED <<tracker, input>>

ToggleTaskLocal ==
  /\ input.kind = "task"
  /\ output = NoOutput
  /\ output' = [kind |-> "local",
                newLevel |-> setTaskLevelLocal(input.day, input.task,
                                               input.level).levels[input.task]]
  /\ UNCHANGED <<tracker, input>>

ToggleActivity ==
  /\ input.kind = "activity"
  /\ output = NoOutput
  /\ output' = [kind |-> "activity",
                newLevel |-> handleActivityStarClick(input.ui, input.activity,
                                                     input.level)]
  /\ UNCHANGED <<tracker, input>>

ToggleNext == ToggleTask \/ ToggleTaskLocal \/ ToggleActivity

ToggleSpec == ToggleInit /\ [][ToggleNext]_vars

(***************************************************************************)
(* The streak walk and the calendar classification on their own, applied   *)
(* to drawn histories.                                                     *)
(***************************************************************************)
RECURSIVE SumKeys(_, _)
SumKeys(levels, keys) ==
  IF keys = {} THEN 0
  ELSE LET k == CHOOSE x \in keys : TRUE
       IN levels[k] + SumKeys(levels, keys \ {k})

(* Class of the cell of a past day that has a history record, first copy   *)
(* of renderMonthlyGrid: counts the tasks of the catalog.                  *)
renderMonthlyGrid(dayData, catalog) ==
  LET done == {i \in DOMAIN catalog : Positive(dayData, catalog[i])}
      totalStars == SumKeys(dayData, DOMAIN dayData \cap Range(catalog))
  IN IF Cardinality(done) = Len(catalog) THEN "completed"
     ELSE IF totalStars > 0 THEN "partial"
     ELSE "none"

(* Class of the cell in renderWeeklyGrid and in renderMonthlyGrid of the   *)
(* second copy: counts the values of the record.                           *)
renderWeeklyGrid(dayData) ==
  LET completedTasks == Cardinality({k \in DOMAIN dayData : dayData[k] > 0})
      totalStars == SumKeys(dayData, DOMAIN dayData)
  IN IF completedTasks = GridFullCount THEN "completed"
     ELSE IF totalStars > 0 THEN "partial"
     ELSE "none"

Catalogs == {ServerConfig[u] : u \in DOMAIN ServerConfig}

DayInputs == PartialMaps(TaskIds, {0, 2})

(* Histories over the last MaxHistoryDays days: each day missing or one of *)
(* the day records.                                                        *)
ShortHistories(today) ==
  UNION {[ds -> DayInputs] :
           ds \in SUBSET ((today - MaxHistoryDays)..(today - 1))}

(* Histories of n complete days with the day g days back removed (g = 0:   *)
(* none removed), around the length of the lookback window.                *)
WithoutDay(history, date) ==
  [d \in DOMAIN history \ {date} |-> history[d]]

LongHistories(today) ==
  {WithoutDay(CompleteDays(n, today), today - g) :
     n \in {MonthStreak, LookbackDays - 1, LookbackDays, LookbackDays + 1,
            LookbackDays + MaxHistoryDays},
     g \in {0, WeekStreak, LookbackDays}}

(* The local day map that holds the same levels as a history.              *)
localData(history, today) ==
  [currentDate  |-> today,
   daily        |-> [d \in DOMAIN history |->
                       [levels |-> history[d],
                        completed |-> statusCompleted(history[d])]],
   streak       |-> 0,
   achievements |-> <<>>]

StreakInit ==
  /\ TrackerInit
  /\ \E h \in ShortHistories(1) \cup LongHistories(1), c \in Catalogs :
       input = [kind |-> "history", history |-> h, catalog |-> c, today |-> 1]
  /\ output = NoOutput

(* calculateTrueStreak with the history served.                            *)
StreakRemote ==
  /\ input.kind = "history"
  /\ output = NoOutput
  /\ output' = [kind |-> "streak",
                streak |-> calculateTrueStreak(
                             localData(<<>>, input.today), input.today,
                             input.catalog,
                             [kind |-> "history", history |-> input.history])]
  /\ UNCHANGED <<tracker, input>>

(* calculateTrueStreak with the request failing and the same days in the   *)
(* local day map.                                                          *)
StreakLocal ==
  /\ input.kind = "history"
  /\ output = NoOutput
  /\ output' = [kind |-> "streak",
                streak |-> calculateTrueStreak(
                             localData(input.history, input.today),
                             input.today, input.catalog,
                             [kind |-> "error", history |-> <<>>])]
  /\ UNCHANGED <<tracker, input>>

(* The calendar cell of one past day of the history.                       *)
Classify ==
  /\ input.kind = "history"
  /\ output = NoOutput
  /\ \E d \in DOMAIN input.history :
       output' = [kind |-> "cell", date |-> d,
                  monthly |-> renderMonthlyGrid(input.history[d], input.catalog),
                  weekly |-> renderWeeklyGrid(input.history[d])]
  /\ UNCHANGED <<tracker, input>>

(* Class of a cell of the monthly grid, second copy of the file: counts    *)
(* the values of the record against the literal 3.                         *)
renderMonthlyGridSecond(dayData) ==
  LET completedTasks == Cardinality({k \in DOMAIN dayData : dayData[k] > 0})
      totalStars == SumKeys(dayData, DOMAIN dayData)
  IN IF completedTasks = GridFullCount THEN "completed"
     ELSE IF totalStars > 0 THEN "partial"
     ELSE "none"

(* const dayData = history[dateStr]; if (dayData) {...} else no class.     *)
monthlyCell(history, date, catalog) ==
  IF date \in DOMAIN history THEN renderMonthlyGrid(history[date], catalog)
  ELSE "none"

monthlyCellSecond(history, date) ==
  IF date \in DOMAIN history THEN renderMonthlyGridSecond(history[date])
  ELSE "none"

(* The cell of any past date of the rendered range, with or without a      *)
(* record.                                                                 *)
ClassifyDate ==
  /\ input.kind = "history"
  /\ output = NoOutput
  /\ \E d \in (input.today - MaxHistoryDays - 1)..(input.today - 1) :
       output' = [kind |-> "class", date |-> d,
                  monthly |-> monthlyCell(input.history, d, input.catalog),
                  second |-> monthlyCellSecond(input.history, d)]
  /\ UNCHANGED <<tracker, input>>

(* The same day map on the three ways: calculateTrueStreak with the        *)
(* request failing, calculateTrueStreakFromLocal called directly, and the  *)
(* walk over the served history.                                           *)
StreakWalks ==
  /\ input.kind = "history"
  /\ output = NoOutput
  /\ LET td == localData(input.history, input.today)
     IN output' = [kind |-> "walks",
                   failed |-> calculateTrueStreak(
                                td, input.today, input.catalog,
                                [kind |-> "error", history |-> <<>>]),
                   local |-> calculateTrueStreakFromLocal(
                               td, input.today, input.catalog),
                   remote |-> calculateTrueStreak(
                                localData(<<>>, input.today), input.today,
                                input.catalog,
                                [kind |-> "history",
                                 history |-> input.history])]
  /\ UNCHANGED <<tracker, input>>

StreakNext ==
  StreakRemote \/ StreakLocal \/ Classify \/ ClassifyDate \/ StreakWalks

StreakSpec == StreakInit /\ [][StreakNext]_vars

(***************************************************************************)
(* Tasks with activities: the progress count, the stats, the badge and the *)
(* displayed streak on their own.  A task is configured with a set of      *)
(* activities, the empty set standing for a task without activities; the   *)
(* level of an activity lives on the server and is read with one GET per   *)
(* activity.                                                               *)
(***************************************************************************)
Flat == {}

ActivityConfigs == {Flat, {"a1"}, {"a1", "a2"}}

ProgressCatalogs == {<<"reading">>, <<"reading", "exercise">>}

ActivityKeys(catalog, cfg) ==
  {<<catalog[i], a>> : i \in DOMAIN catalog, a \in Activities} \cap
  {k \in TaskIds \X Activities : k[2] \in cfg[k[1]]}

(* The answer of GET .../activity/<id>/status is OK and carries a level    *)
(* above 0.                                                                *)
activityHasStars(act, failed, key) == key \notin failed /\ act[key] > 0

hasAnyStars(task, cfg, act, failed) ==
  \E a \in cfg[task] : activityHasStars(act, failed, <<task, a>>)

updateProgressCircle(catalog, cfg, act, failed) ==
  Cardinality({i \in DOMAIN catalog :
                 cfg[catalog[i]] # Flat
                 /\ hasAnyStars(catalog[i], cfg, act, failed)})

RECURSIVE SumStars(_, _, _)
SumStars(keys, act, failed) ==
  IF keys = {} THEN 0
  ELSE LET k == CHOOSE x \in keys : TRUE
       IN (IF activityHasStars(act, failed, k) THEN act[k] ELSE 0)
          + SumStars(keys \ {k}, act, failed)

updateStats(catalog, cfg, act, failed) ==
  [totalStars |-> SumStars(ActivityKeys(catalog, cfg), act, failed),
   completedTasksCount |-> updateProgressCircle(catalog, cfg, act, failed)]

updateTaskBadgeStatus(task, cfg, act, failed) ==
  IF cfg[task] = Flat THEN "Not Started"
  ELSE IF hasAnyStars(task, cfg, act, failed) THEN "Completed"
  ELSE "Not Started"

(* setTaskActivityLevel: the server stores the level when it answers with  *)
(* success; today's record in taskData is not written.                     *)
setTaskActivityLevel(st, key, level, outcome) ==
  IF outcome = "success"
  THEN [st EXCEPT !.act = (key :> level) @@ @, !.toggled = TRUE]
  ELSE [st EXCEPT !.toggled = TRUE]

calculateCurrentStreak(td, today, catalog, resp) ==
  LET allTasksCompletedToday ==
        allTasksCompleted(td.daily[today].levels, catalog)
      currentStreak == calculateTrueStreak(td, today, catalog, resp)
  IN IF allTasksCompletedToday THEN currentStreak + 1 ELSE currentStreak

MaxOf(S) == IF S = {} THEN 0 ELSE Max(S)

(* Today's record as the last reconcile left it: the level of a task with  *)
(* activities is the highest level of its activities.                      *)
ReconciledLevels(catalog, cfg, flat, act) ==
  [t \in Range(catalog) |->
     IF cfg[t] = Flat THEN flat[t]
     ELSE MaxOf({act[<<t, a>>] : a \in cfg[t]})]

ProgressInputs ==
  {[kind |-> "progress", catalog |-> c, cfg |-> cfg, act |-> act,
    levels |-> ReconciledLevels(c, cfg, flat, act), days |-> n,
    toggled |-> FALSE] :
     c \in ProgressCatalogs, cfg \in [TaskIds -> ActivityConfigs],
     act \in [TaskIds \X Activities -> {0, 2}], flat \in [TaskIds -> {0, 2}],
     n \in {0, 1}}

(* The built-in catalog, whose tasks have no activities, with reading at   *)
(* 2, exercise at 3 and caring at 1.                                       *)
FallbackDay ==
  [kind |-> "progress", catalog |-> FallbackTasks,
   cfg |-> [t \in TaskIds |-> Flat],
   act |-> [k \in TaskIds \X Activities |-> 0],
   levels |-> [reading |-> 2, exercise |-> 3, caring |-> 1],
   days |-> 0, toggled |-> FALSE]

ProgressInit ==
  /\ TrackerInit
  /\ input \in {i \in ProgressInputs :
                  /\ \A t \in TaskIds \ Range(i.catalog) : i.cfg[t] = Flat
                  /\ \A k \in (TaskIds \X Activities)
                                \ ActivityKeys(i.catalog, i.cfg) : i.act[k] = 0}
               \cup {FallbackDay}
  /\ output = NoOutput

(* updateStats of the second copy: the numeric values of today's record    *)
(* and the length of its completed array.                                  *)
updateStatsSecond(day) ==
  [totalStars |-> SumKeys(day.levels, DOMAIN day.levels),
   completedTasks |-> Len(day.completed)]

(* A star of an activity is clicked and the write is answered.             *)
SetActivity ==
  /\ input.kind = "progress"
  /\ output = NoOutput
  /\ ~input.toggled
  /\ \E key \in ActivityKeys(input.catalog, input.cfg), level \in 0..NumLevels,
        outcome \in Outcomes :
       input' = setTaskActivityLevel(input, key, level, outcome)
  /\ UNCHANGED <<tracker, output>>

FailedFetches(i) ==
  {{}} \cup {{k} : k \in ActivityKeys(i.catalog, i.cfg)}

Progress ==
  /\ input.kind = "progress"
  /\ output = NoOutput
  /\ \E failed \in FailedFetches(input) :
       output' = [kind |-> "progress", failed |-> failed,
                  count |-> updateProgressCircle(input.catalog, input.cfg,
                                                 input.act, failed),
                  stats |-> updateStats(input.catalog, input.cfg, input.act,
                                        failed),
                  second |-> updateStatsSecond(
                               [levels |-> input.levels,
                                completed |-> statusCompleted(input.levels)]),
                  badge |-> [t \in Range(input.catalog) |->
                               updateTaskBadgeStatus(t, input.cfg, input.act,
                                                     failed)]]
  /\ UNCHANGED <<tracker, input>>

CurrentStreak ==
  /\ input.kind = "progress"
  /\ output = NoOutput
  /\ LET td == localData((1 :> input.levels)
                         @@ [d \in (1 - input.days)..0 |->
                               [t \in TaskIds |-> 1]], 1)
         resp == [kind |-> "error", history |-> <<>>]
     IN output' = [kind |-> "current",
                   base |-> calculateTrueStreak(td, 1, input.catalog, resp),
                   value |-> calculateCurrentStreak(td, 1, input.catalog, resp)]
  /\ UNCHANGED <<tracker, input>>

(* The cell of today in the monthly grid, first copy: without an entry for *)
(* today in the fetched history the cell gets no class; with one, the      *)
(* tasks that have activities are counted from their status requests.      *)
renderMonthlyGridToday(entry, catalog, cfg, act) ==
  IF entry = NoData THEN "none"
  ELSE LET stats == updateStats(catalog, cfg, act, {})
       IN IF stats.completedTasksCount = Len(catalog) THEN "completed"
          ELSE IF stats.totalStars > 0 THEN "partial"
          ELSE "none"

(* Second copy: the cell of today is computed from the entry like the cell *)
(* of any other day.                                                       *)
renderMonthlyGridTodaySecond(entry) ==
  IF entry = NoData THEN "none" ELSE renderMonthlyGridSecond(entry)

(* What GET history holds for today when the grid is drawn: no entry yet,  *)
(* an entry that lacks the stars of today, or the levels of today.         *)
TodayEntries(i) ==
  {NoData, [t \in Range(i.catalog) |-> 0], i.levels}

TodayCell ==
  /\ input.kind = "progress"
  /\ output = NoOutput
  /\ \E entry \in TodayEntries(input) :
       output' = [kind |-> "today", entry |-> entry,
                  monthly |-> renderMonthlyGridToday(entry, input.catalog,
                                                     input.cfg, input.act),
                  second |-> renderMonthlyGridTodaySecond(entry)]
  /\ UNCHANGED <<tracker, input>>

(***************************************************************************)
(* The star total of the last 365 days.                                    *)
(***************************************************************************)
(* for (const dateStr in history) for (const task in dayData): every       *)
(* numeric value of every entry of the fetched history.                    *)
RECURSIVE historyStars(_, _)
historyStars(history, dates) ==
  IF dates = {} THEN 0
  ELSE LET d == CHOOSE x \in dates : TRUE
       IN SumKeys(history[d], DOMAIN history[d])
          + historyStars(history, dates \ {d})

(* for (i = 0; i < 365; i++): the catalog tasks of every local record from *)
(* today back to today - 364.                                              *)
RECURSIVE localStars(_, _, _)
localStars(td, dates, catalog) ==
  IF dates = {} THEN 0
  ELSE LET d == CHOOSE x \in dates : TRUE
       IN SumLevels(td.daily[d], catalog)
          + localStars(td, dates \ {d}, catalog)

calculateTotalStarsLocal365(td, today, catalog) ==
  localStars(td, DOMAIN td.daily \cap ((today - (LookbackDays - 1))..today),
             catalog)

(* The whole fetched history, then today's stars of the local record; the  *)
(* local sum when the request fails.                                       *)
calculateTotalStars365(td, today, catalog, resp) ==
  IF resp.kind = "history"
  THEN historyStars(resp.history, DOMAIN resp.history)
       + SumLevels(td.daily[today], catalog)
  ELSE calculateTotalStarsLocal365(td, today, catalog)

(* The days before today of the input: each catalog task at 1.             *)
PastDays(i) ==
  [d \in (1 - i.days)..0 |-> [t \in Range(i.catalog) |-> 1]]

(* updateStarDisplay: the history is served, with or without an entry for  *)
(* today, or the request fails.                                            *)
StarTotal ==
  /\ input.kind = "progress"
  /\ output = NoOutput
  /\ \E entry \in TodayEntries(input), k \in {"history", "error"} :
       LET td == localData((1 :> input.levels) @@ PastDays(input), 1)
           served == IF entry = NoData THEN PastDays(input)
                     ELSE (1 :> entry) @@ PastDays(input)
           resp == [kind |-> k,
                    history |-> IF k = "history" THEN served ELSE <<>>]
       IN output' = [kind |-> "stars365", entry |-> entry, resp |-> k,
                     total |-> calculateTotalStars365(td, 1, input.catalog,
                                                      resp)]
  /\ UNCHANGED <<tracker, input>>

ProgressNext ==
  SetActivity \/ Progress \/ CurrentStreak \/ TodayCell \/ StarTotal

ProgressSpec == ProgressInit /\ [][ProgressNext]_vars

(***************************************************************************)
(* checkAchievements as a function of the ledger, today's record, the      *)
(* stored streak and the catalog, in both copies of the file.  The catalog *)
(* comes from the served config and has any number of tasks.               *)
(***************************************************************************)
AchievementTableSecond ==
  {"first_star", "all_tasks", "week_streak", "month_streak"}

triggerAchievementSecond(ev, id) ==
  IF id \in AchievementTableSecond /\ ~Includes(ev.ledger, id)
  THEN [ledger |-> Append(ev.ledger, id), fired |-> Append(ev.fired, id)]
  ELSE ev

(* Second copy: the stars are summed over the numeric values of the        *)
(* record, and a streak of 7 grants week_streak.                           *)
checkAchievementsSecond(ledger, day, streak) ==
  LET e0 == [ledger |-> ledger, fired |-> <<>>]
      e1 == IF SumKeys(day.levels, DOMAIN day.levels) > 0
               /\ ~Includes(e0.ledger, "first_star")
            THEN triggerAchievementSecond(e0, "first_star") ELSE e0
      e2 == IF Len(day.completed) = AllTasksCount
               /\ ~Includes(e1.ledger, "all_tasks")
            THEN triggerAchievementSecond(e1, "all_tasks") ELSE e1
      e3 == IF streak >= WeekStreak /\ ~Includes(e2.ledger, "week_streak")
            THEN triggerAchievementSecond(e2, "week_streak") ELSE e2
      e4 == IF streak >= MonthStreak /\ ~Includes(e3.ledger, "month_streak")
            THEN triggerAchievementSecond(e3, "month_streak") ELSE e3
  IN e4

(* Catalogs a config can serve: two, three and four tasks.                 *)
AchieveCatalogs ==
  {<<"reading", "exercise">>, FallbackTasks,
   <<"reading", "exercise", "caring", "meditation">>}

AchievementOrder == <<"first_star", "all_tasks", "week_streak", "month_streak">>

(* The ledgers: the ids already pushed, in the order of evaluation.        *)
Ledgers ==
  {SelectSeq(AchievementOrder, LAMBDA id : id \in S) :
     S \in SUBSET AchievementTableSecond}

(* The completed array after the tasks above 0 were clicked in the order   *)
(* of the catalog.                                                         *)
completedOf(levels, catalog) ==
  SelectSeq(catalog, LAMBDA t : levels[t] > 0)

AchieveInputs ==
  UNION {{[kind |-> "achieve", catalog |-> c, ledger |-> l, streak |-> n,
           day |-> [levels |-> lv, completed |-> completedOf(lv, c)]] :
            lv \in [Range(c) -> {0, 2}], l \in Ledgers,
            n \in {0, WeekStreak, MonthStreak}} : c \in AchieveCatalogs}

AchieveInit ==
  /\ TrackerInit
  /\ input \in AchieveInputs
  /\ output = NoOutput

Evaluate ==
  /\ input.kind = "achieve"
  /\ output = NoOutput
  /\ output' = [kind |-> "achieve",
                ev |-> checkAchievements(input.ledger, input.day, input.streak,
                                         input.catalog)]
  /\ UNCHANGED <<tracker, input>>

EvaluateSecond ==
  /\ input.kind = "achieve"
  /\ output = NoOutput
  /\ output' = [kind |-> "achieve",
                ev |-> checkAchievementsSecond(input.ledger, input.day,
                                               input.streak)]
  /\ UNCHANGED <<tracker, input>>

AchieveNext == Evaluate \/ EvaluateSecond

AchieveSpec == AchieveInit /\ [][AchieveNext]_vars

(***************************************************************************)
(* setTaskLevel as a function of its arguments, for any level it may be    *)
(* called with: the request it sends, whether it raises before sending,    *)
(* and today's record once the response was handled.                       *)
(***************************************************************************)
setTaskLevel(day, task, level, outcome) ==
  LET currentLevel == currentLevelOf(day, task)
      newLevel == IF currentLevel = level THEN 0 ELSE level
  IN [raised |-> FALSE,
      request |-> <<[task |-> task, level |-> newLevel]>>,
      day |-> IF outcome = "rejected" THEN day
              ELSE writeLevel(day, task, newLevel)]

(* The levels a caller may pass: below 0, 0, the star levels, above them.  *)
RequestLevels == (0 - 1)..(NumLevels + 1)

(* The levels the catalog declares for the task: one button or three.      *)
DeclaredLevels == {{1}, Levels}

RequestInputs ==
  {[kind |-> "request", day |-> [levels |-> m, completed |-> statusCompleted(m)],
    task |-> t, level |-> l, declared |-> d] :
     m \in [TaskIds -> {0, 2}], t \in TaskIds, l \in RequestLevels,
     d \in DeclaredLevels}

RequestInit ==
  /\ TrackerInit
  /\ input \in RequestInputs
  /\ output = NoOutput

SetTaskLevel ==
  /\ input.kind = "request"
  /\ output = NoOutput
  /\ \E outcome \in Outcomes :
       output' = [kind |-> "request", outcome |-> outcome,
                  res |-> setTaskLevel(input.day, input.task, input.level,
                                       outcome)]
  /\ UNCHANGED <<tracker, input>>

(* The levels a status object of the remote store may carry: the store     *)
(* holds what was posted to it, and a post carries any level.              *)
ServedLevelValues == 0..(NumLevels + 1)

(* syncWithBackend on the record, with a status object for one task.       *)
Reconcile ==
  /\ input.kind = "request"
  /\ output = NoOutput
  /\ \E l \in ServedLevelValues :
       output' = [kind |-> "reconcile", served |-> l,
                  res |-> [day |-> syncMerge(input.day, (input.task :> l))]]
  /\ UNCHANGED <<tracker, input>>

RequestNext == SetTaskLevel \/ Reconcile

RequestSpec == RequestInit /\ [][RequestNext]_vars

(***************************************************************************)
(* Today's record next to the levels the remote store holds for the same   *)
(* user and date.  The store takes the level of a POST it answers with     *)
(* success = true, keeps its level when it answers success = false or a    *)
(* non-OK status, and either of the two when the request fails on the      *)
(* network (the request or only its answer was lost).                      *)
(***************************************************************************)
remoteWrite(remote, request, outcome, stored) ==
  IF outcome = "success" \/ (outcome = "error" /\ stored)
  THEN (request.task :> request.level) @@ remote
  ELSE remote

(* Local and remote agree when the series of toggles starts.               *)
StoreInputs ==
  {[kind |-> "store", day |-> [levels |-> m, completed |-> statusCompleted(m)],
    remote |-> m, left |-> MaxEvents] : m \in [TaskIds -> {0, 2}]}

StoreInit ==
  /\ TrackerInit
  /\ input \in StoreInputs
  /\ output = NoOutput

(* One click with its remote write answered before the next click.         *)
StoreToggle ==
  /\ input.kind = "store"
  /\ input.left > 0
  /\ \E t \in TaskIds, level \in Levels, outcome \in Outcomes,
        stored \in BOOLEAN :
       LET r == setTaskLevel(input.day, t, level, outcome)
       IN input' = [input EXCEPT
                      !.day = r.day,
                      !.remote = remoteWrite(@, r.request[1], outcome, stored),
                      !.left = @ - 1]
  /\ UNCHANGED <<tracker, output>>

StoreNext == StoreToggle

StoreSpec == StoreInit /\ [][StoreNext]_vars

(***************************************************************************)
(* Properties.                                                             *)
(***************************************************************************)
NoDuplicates(s) == \A i, j \in DOMAIN s : s[i] = s[j] => i = j

levelAt(td, date, task) == currentLevelOf(dayOrEmpty(td, date), task)

ResolvedCall == lastOp.arg.w

(* C1: whenever the remote write of setTaskLevel fails (network error,     *)
(* non-OK status, or success = false) the local level of the item after    *)
(* the call equals its level before the call.                              *)
C1_RollbackOnFailure ==
  (lastOp.op = "resolve" /\ lastOp.arg.outcome \in {"error", "rejected"})
    => levelAt(taskData, ResolvedCall.today, ResolvedCall.task)
         = ResolvedCall.currentLevel

(* A call that set its item to level L (it did not clear it) and whose     *)
(* response was handled in the step before the resolved call was made, on  *)
(* the same item.                                                          *)
FollowsSetCall(w) ==
  /\ w.prev # NoCall
  /\ w.prev.task = w.task
  /\ w.prev.user = w.user
  /\ w.prev.today = w.today
  /\ w.prev.newLevel = w.prev.level

ToggleResult(first, second) == IF second = first THEN 0 ELSE second

(* C3 as stated: after toggle(t,L) a second toggle(t,L) returns the level  *)
(* to 0 and a toggle(t,L2) leaves L2, for any two consecutive setTaskLevel *)
(* calls on the same item, whatever the outcome of the first remote write. *)
C3_ToggleSequenceAnyOutcome ==
  (/\ lastOp.op = "resolve"
   /\ lastOp.arg.outcome = "success"
   /\ FollowsSetCall(ResolvedCall)
   /\ ResolvedCall.today \in DOMAIN taskData.daily)
    => levelAt(taskData, ResolvedCall.today, ResolvedCall.task)
         = ToggleResult(ResolvedCall.prev.level, ResolvedCall.level)

(* C3 amended: the toggle sequence holds when the first write succeeded or *)
(* failed with a network or HTTP error (the code then keeps L locally) and *)
(* the second write is not answered success = false.  A first write        *)
(* answered success = false never sets the item to L.                      *)
C3_ToggleSequence ==
  (/\ lastOp.op = "resolve"
   /\ lastOp.arg.outcome # "rejected"
   /\ FollowsSetCall(ResolvedCall)
   /\ ResolvedCall.prev.outcome # "rejected"
   /\ ResolvedCall.today \in DOMAIN taskData.daily)
    => levelAt(taskData, ResolvedCall.today, ResolvedCall.task)
         = ToggleResult(ResolvedCall.prev.level, ResolvedCall.level)

C3_Witness ==
  /\ lastOp.op = "resolve"
  /\ lastOp.arg.outcome = "success"
  /\ FollowsSetCall(ResolvedCall)
  /\ ResolvedCall.prev.outcome = "error"
  /\ ResolvedCall.level = ResolvedCall.prev.level
  /\ levelAt(taskData, ResolvedCall.today, ResolvedCall.task) = 0

(* C4: the completed list of today's record holds exactly the keys whose   *)
(* level is above 0, each once.                                            *)
CompletedMatchesLevels(day) ==
  /\ Range(day.completed) = {k \in DOMAIN day.levels : day.levels[k] > 0}
  /\ NoDuplicates(day.completed)

C4_CompletedSetInvariant ==
  now \in DOMAIN taskData.daily => CompletedMatchesLevels(taskData.daily[now])

(* C7: evaluating checkAchievements again in an unchanged state adds       *)
(* nothing to the ledger and shows nothing; the ledger in memory, every    *)
(* persisted ledger and the notifications shown to a user never hold the   *)
(* same id twice.                                                          *)
evaluateTwice(td, today, catalog) ==
  LET first == checkAchievements(td.achievements, td.daily[today], td.streak,
                                 catalog)
      second == checkAchievements(first.ledger, td.daily[today], td.streak,
                                  catalog)
  IN /\ NoDuplicates(first.ledger)
     /\ second.fired = <<>>
     /\ second.ledger = first.ledger

C7_AtMostOnceAchievement ==
  /\ NoDuplicates(taskData.achievements)
  /\ NoDuplicates(shown)
  /\ \A u \in DOMAIN storage :
        storage[u] # NoData => NoDuplicates(storage[u].achievements)
  /\ now \in DOMAIN taskData.daily => evaluateTwice(taskData, now, tasks)

(* A second evaluation ran with the condition of 'first_star' still true   *)
(* and the id already in the ledger.                                       *)
C7_Witness ==
  /\ lastOp.op = "resolve"
  /\ lastOp.arg.outcome = "success"
  /\ ResolvedCall.prev # NoCall
  /\ ResolvedCall.prev.outcome = "success"
  /\ ResolvedCall.prev.user = ResolvedCall.user
  /\ ResolvedCall.prev.newLevel > 0
  /\ ResolvedCall.newLevel > 0
  /\ currentUser = ResolvedCall.user
  /\ taskData.achievements = <<"first_star">>
  /\ shown = <<<<currentUser, "first_star">>>>

(* C9: a reconcile that received a status object leaves, for today, every  *)
(* task of the status at the served level and every other task at the      *)
(* level it had before.                                                    *)
ReconcileMerged(before, after, status, today) ==
  \A k \in TaskIds :
    IF k \in DOMAIN status
    THEN levelAt(after, today, k) = status[k]
    ELSE levelAt(after, today, k) = levelAt(before, today, k)

C9_ReconcileMerge ==
  [][(pc = "sync" /\ lastOp'.op = "sync")
       => ReconcileMerged(taskData, taskData', lastOp'.arg, now)]_vars

(* A status with reading alone was merged over a record whose exercise     *)
(* level had been set locally.                                             *)
C9_Witness ==
  /\ lastOp.op = "sync"
  /\ DOMAIN lastOp.arg = {"reading"}
  /\ lastOp.arg["reading"] = 2
  /\ levelAt(taskData, now, "reading") = 2
  /\ levelAt(taskData, now, "exercise") = 1

(* C10: a reconcile whose request fails or is answered non-OK completes    *)
(* (init or switchUser goes on), leaves the day records, the completed     *)
(* lists, the ledger and the persisted cache as they were, and a toggle    *)
(* is accepted afterwards.                                                 *)
ReconcileFailureStep ==
  (pc = "sync" /\ lastOp'.op = "syncFailed")
    => /\ pc' = "idle"
       /\ taskData' = taskData
       /\ storage' = storage
       /\ shown' = shown

ToggleAcceptedAfterFailure ==
  (/\ lastOp.op = "syncFailed"
   /\ now \in DOMAIN taskData.daily
   /\ Cardinality(inflight) < MaxInFlight
   /\ events < MaxEvents)
    => ENABLED Click

C10_ReconcileFailure ==
  [][ReconcileFailureStep]_vars /\ []ToggleAcceptedAfterFailure

(* The reconcile failed over a record that holds a level set locally.      *)
C10_Witness ==
  /\ lastOp.op = "syncFailed"
  /\ pc = "idle"
  /\ now \in DOMAIN taskData.daily
  /\ taskData.daily[now].completed = <<"reading">>
  /\ levelAt(taskData, now, "reading") = 1
  /\ storage[currentUser] = taskData

(* C2: the new level is 0 when the current level of the item equals the    *)
(* clicked level and the clicked level otherwise; it is never the sum of   *)
(* the two and does not change with the level of another item.             *)
ItemLevel(i) ==
  IF i.kind = "task" THEN currentLevelOf(i.day, i.task)
  ELSE i.ui[i.activity].level

IndependentOfOthers(i, newLevel) ==
  IF i.kind = "task"
  THEN \A k \in TaskIds \ {i.task}, v \in 0..NumLevels :
         LET other == [i.day EXCEPT !.levels = (k :> v) @@ @]
         IN /\ setTaskLevelNewLevel(other, i.task, i.level) = newLevel
            /\ setTaskLevelLocal(other, i.task, i.level).levels[i.task]
                 = newLevel
  ELSE \A a \in Activities \ {i.activity}, st \in ActivityStates :
         handleActivityStarClick([i.ui EXCEPT ![a] = st], i.activity, i.level)
           = newLevel

C2_ToggleRule ==
  output.kind \in {"task", "local", "activity"}
    => /\ output.newLevel
            = IF ItemLevel(input) = input.level THEN 0 ELSE input.level
       /\ ItemLevel(input) > 0
            => output.newLevel # ItemLevel(input) + input.level
       /\ IndependentOfOthers(input, output.newLevel)

(* Level 2 clicked on a task at level 1 while another task is at level 3.  *)
C2_Witness ==
  /\ output.kind = "task"
  /\ input.task = "reading"
  /\ ItemLevel(input) = 1
  /\ input.level = 2
  /\ LevelOr0(input.day, "exercise") = 3
  /\ output.newLevel = 2

(* The streak predicate of one day and the number of leading days of the   *)
(* history, from yesterday backward, that satisfy it.                      *)
Qualifies(i, k) ==
  /\ (i.today - k) \in DOMAIN i.history
  /\ allTasksCompleted(i.history[i.today - k], i.catalog)

RunOf(i, k) ==
  /\ \A j \in 1..k : Qualifies(i, j)
  /\ ~Qualifies(i, k + 1)

HistorySpan == LookbackDays + MaxHistoryDays + 1

(* C5 as stated: k complete days before today followed by an incomplete    *)
(* day give a streak of exactly k, for any history.                        *)
C5_StreakValueAnyHistory ==
  output.kind = "streak"
    => \A k \in 0..HistorySpan : RunOf(input, k) => output.streak = k

(* C5 amended: the same for k up to the lookback window of 365 days; a     *)
(* longer run gives 365.                                                   *)
C5_StreakValue ==
  output.kind = "streak"
    => \A k \in 0..HistorySpan :
         RunOf(input, k)
           => output.streak = IF k <= LookbackDays THEN k ELSE LookbackDays

(* A run of six days, a missing seventh and complete days behind it.        *)
C5_Witness ==
  /\ output.kind = "streak"
  /\ RunOf(input, WeekStreak - 1)
  /\ Qualifies(input, WeekStreak + 1)
  /\ output.streak = WeekStreak - 1

(* C6: the streak is 0 when the history is empty or has no entry for       *)
(* yesterday, and a date absent from the history ends the count there,     *)
(* whatever lies behind it.                                                *)
C6_MissingDayBreaksStreak ==
  output.kind = "streak"
    => /\ (input.today - 1) \notin DOMAIN input.history => output.streak = 0
       /\ \A g \in 1..HistorySpan :
            (input.today - g) \notin DOMAIN input.history
              => output.streak <= g - 1

(* Yesterday is absent and the day before is complete.                     *)
C6_Witness ==
  /\ output.kind = "streak"
  /\ (input.today - 1) \notin DOMAIN input.history
  /\ Qualifies(input, 2)
  /\ output.streak = 0

(* C8: the calendar cell of a past day is 'completed' exactly when the     *)
(* streak predicate counts the day, in the monthly and in the weekly grid, *)
(* for every catalog.                                                      *)
C8_AggregationStreakAgreement ==
  output.kind = "cell"
    => LET counts == allTasksCompleted(input.history[output.date],
                                       input.catalog)
       IN /\ (output.monthly = "completed") <=> counts
          /\ (output.weekly = "completed") <=> counts

(* C11: no setTaskLevel call is accepted before the reconcile of the       *)
(* session has completed or given up, and a reconcile response never       *)
(* overwrites a level that a toggle wrote while the reconcile was pending. *)
ToggleOnlyAfterReconcile == lastOp.op = "click" => pc = "idle"

ReconcileKeepsFresherWrite ==
  (/\ pc = "sync"
   /\ lastOp.op = "resolve"
   /\ lastOp.arg.outcome # "rejected"
   /\ lastOp.arg.w.user = currentUser
   /\ lastOp.arg.w.today = now
   /\ lastOp'.op = "sync")
    => levelAt(taskData', now, lastOp.arg.w.task) = lastOp.arg.w.newLevel

C11_ReconcileBeforeToggle ==
  []ToggleOnlyAfterReconcile /\ [][ReconcileKeepsFresherWrite]_vars

(* C12: the response of a write started for a user who is no longer the    *)
(* current one changes neither the data in memory (day records, completed  *)
(* lists, ledger) nor the persisted cache of the user now active.          *)
StaleResolveStep ==
  /\ lastOp'.op = "resolve"
  /\ lastOp'.arg.w \in inflight
  /\ lastOp'.arg.w.user # currentUser

C12_StaleWriteDiscarded ==
  [][StaleResolveStep => (taskData' = taskData /\ storage' = storage)]_vars

(* C13: at most one remote write per item is in flight, and when an item   *)
(* is toggled twice before the first write resolves, the local level after *)
(* both responses is the one the second toggle asked for.                  *)
SameItem(w1, w2) ==
  w1.user = w2.user /\ w1.today = w2.today /\ w1.task = w2.task

OneInFlightPerItem ==
  \A w1, w2 \in inflight : SameItem(w1, w2) => w1 = w2

(* The response of a call arrives right after the response of a call made *)
(* later on the same item, both still in flight together before.           *)
LastIntentWinsStep ==
  (/\ lastOp.op = "resolve"
   /\ lastOp'.op = "resolve"
   /\ lastOp'.arg.w \in inflight
   /\ lastOp'.arg.w.id < lastOp.arg.w.id
   /\ SameItem(lastOp'.arg.w, lastOp.arg.w)
   /\ lastOp.arg.w.user = currentUser
   /\ lastOp.arg.w.today \in DOMAIN taskData.daily)
    => levelAt(taskData', lastOp.arg.w.today, lastOp.arg.w.task)
         = lastOp.arg.w.newLevel

C13_OneInFlightLastIntentWins ==
  []OneInFlightPerItem /\ [][LastIntentWinsStep]_vars

(* C14: the data saved under the key of a user is data that was loaded     *)
(* from that key or created as default while that user was current.        *)
C14_PerUserIsolation ==
  \A u \in DOMAIN storage : storage[u] # NoData => storage[u].owner = u

(* The completion predicate of a task: flat with a level above 0, or with  *)
(* activities and at least one of them above 0.                            *)
IsTaskCompleted(i, t) ==
  IF i.cfg[t] = Flat THEN t \in DOMAIN i.levels /\ i.levels[t] > 0
  ELSE \E a \in i.cfg[t] : i.act[<<t, a>>] > 0

CompletedTasks(i) ==
  {k \in DOMAIN i.catalog : IsTaskCompleted(i, i.catalog[k])}

(* C15: with every status request answered, the progress count, the stats  *)
(* and the badge take a task as completed exactly when it is flat with a   *)
(* level above 0 or has an activity with a level above 0.                  *)
C15_TaskCompletionPredicate ==
  (output.kind = "progress" /\ output.failed = {})
    => /\ output.count = Cardinality(CompletedTasks(input))
       /\ output.stats.completedTasksCount = Cardinality(CompletedTasks(input))
       /\ \A t \in Range(input.catalog) :
            (output.badge[t] = "Completed") <=> IsTaskCompleted(input, t)

(* C16: the displayed streak is the walked streak plus one exactly when    *)
(* every task of the catalog is completed today under the completion       *)
(* predicate of C15, and the walked streak otherwise.                      *)
C16_PotentialStreak ==
  output.kind = "current"
    => output.value
         = IF \A k \in DOMAIN input.catalog :
                IsTaskCompleted(input, input.catalog[k])
           THEN output.base + 1
           ELSE output.base

(* C17: where the overall streak is read for the achievements, the stored  *)
(* value is what the walk over the history gives: the response of a write  *)
(* is handled right after checkNewDay, whose history request was (or would *)
(* have been) answered with a history.                                     *)
StreakReadAfterCheckNewDay ==
  /\ lastOp.op = "checkNewDay"
  /\ lastOp.arg.kind = "history"
  /\ lastOp'.op = "resolve"
  /\ lastOp'.arg.outcome # "rejected"
  /\ lastOp'.arg.w.today \in DOMAIN taskData.daily
  /\ now \in DOMAIN taskData.daily

C17_StreakIsDerived ==
  [][StreakReadAfterCheckNewDay
       => taskData.streak
            = calculateTrueStreakRemote(lastOp.arg.history, now, tasks)]_vars

(* C18: every past date of the range gets exactly one of three classes:    *)
(* full when every task of the catalog is above 0 that day, partial when   *)
(* the day has stars without being full, empty when it has no record or no *)
(* stars; a date without record is empty.                                  *)
DayClassOk(i, d, class) ==
  LET has == d \in DOMAIN i.history
      full == has /\ allTasksCompleted(i.history[d], i.catalog)
      catalogStars ==
        IF has
        THEN SumKeys(i.history[d], DOMAIN i.history[d] \cap Range(i.catalog))
        ELSE 0
      allStars == IF has THEN SumKeys(i.history[d], DOMAIN i.history[d]) ELSE 0
  IN /\ class \in {"completed", "partial", "none"}
     /\ (class = "completed") <=> full
     /\ (~full /\ catalogStars > 0) => class = "partial"
     /\ (~has \/ allStars = 0) => class = "none"

C18_DayClassification ==
  output.kind = "class"
    => /\ DayClassOk(input, output.date, output.monthly)
       /\ DayClassOk(input, output.date, output.second)

(* The predicate of an achievement of the table in the state td on the     *)
(* date today for the catalog.                                             *)
AchievementHolds(id, td, today, catalog) ==
  LET day == dayOrEmpty(td, today)
  IN CASE id = "first_star" -> SumLevels(day, catalog) > 0
       [] id = "all_tasks" -> allTasksCompleted(day.levels, catalog)
       [] id = "week_streak" -> td.streak >= WeekStreak
       [] id = "month_streak" -> td.streak >= MonthStreak
       [] OTHER -> FALSE

(* The predicate of an id on the inputs checkAchievements was given.        *)
AchievementHoldsOn(id, i) ==
  CASE id = "first_star" -> SumLevels(i.day, i.catalog) > 0
    [] id = "all_tasks" -> allTasksCompleted(i.day.levels, i.catalog)
    [] id = "week_streak" -> i.streak >= WeekStreak
    [] id = "month_streak" -> i.streak >= MonthStreak
    [] OTHER -> FALSE

(* C19: an id enters the ledger only in a state where its predicate holds: *)
(* first_star with a star today, all_tasks with every task of the catalog  *)
(* above 0 today whatever the size of the catalog, week_streak with a      *)
(* streak of 7 or more, month_streak with a streak of 30 or more.          *)
C19_AchievementSoundness ==
  output.kind = "achieve"
    => \A id \in Range(output.ev.ledger) \ Range(input.ledger) :
         AchievementHoldsOn(id, input)

(* The state is the one checkAchievements returned in: a write was         *)
(* accepted or failed on the network and its continuation ran to the end.  *)
Evaluated ==
  /\ lastOp.op = "resolve"
  /\ lastOp.arg.outcome # "rejected"
  /\ lastOp.arg.w.today \in DOMAIN taskData.daily
  /\ now \in DOMAIN taskData.daily

(* C20: after checkAchievements returned, every achievement of the table   *)
(* (first star today, all tasks today, streak of 7, streak of 30) whose     *)
(* predicate holds is a member of the ledger.                              *)
C20_AchievementCompleteness ==
  Evaluated =>
    \A id \in {"first_star", "all_tasks", "week_streak", "month_streak"} :
      AchievementHolds(id, taskData, now, tasks)
        => Includes(taskData.achievements, id)

(* The ledger of a user: the ids of the data kept for the user.            *)
LedgerOf(store, u) ==
  IF store[u] # NoData THEN Range(store[u].achievements) ELSE {}

(* C21: the ledger of a user never loses an id it once contained, across   *)
(* toggles, evaluations, reconciles, day rollovers, user switches and      *)
(* loads of the page.                                                      *)
C21_LedgerAppendOnly ==
  [][\A u \in DOMAIN storage :
       LedgerOf(storage, u) \subseteq LedgerOf(storage', u)]_vars

(* C22: a call with a level the catalog does not declare for the item      *)
(* (below 0, above 3, or not one of its buttons) is refused before any     *)
(* change: it raises, no request is sent and today's record stays as it    *)
(* was.                                                                    *)
C22_ValidationBeforeMutation ==
  (output.kind = "request" /\ input.level \notin input.declared \cup {0})
    => /\ output.res.raised
       /\ output.res.request = <<>>
       /\ output.res.day = input.day

(* The date has just advanced under a page that finished init: the page    *)
(* is ready for a toggle, a reconcile or a query, so the record of the new *)
(* date exists and has every task of the catalog.                          *)
TodayRecordExists ==
  (pc = "idle" /\ lastOp.op = "tick")
    => /\ now \in DOMAIN taskData.daily
       /\ \A i \in DOMAIN tasks : HasLevel(taskData.daily[now], tasks[i])

(* A step of the page on the data of one user leaves the records of the    *)
(* days before the date of the day as they were.                           *)
PastDaysFrozen ==
  lastOp'.op \in {"resolve", "sync", "syncFailed", "checkNewDay", "click"}
    => \A d \in DOMAIN taskData.daily :
         d < now => (d \in DOMAIN taskData'.daily
                       /\ taskData'.daily[d] = taskData.daily[d])

(* C23: once the date has advanced from D to D+1, every later operation    *)
(* works on a record of D+1 that exists, and the record of D is never      *)
(* modified again, also when the page stays open across the change.        *)
C23_DayRollover == []TodayRecordExists /\ [][PastDaysFrozen]_vars

(* C24: the new level is in today's record before the remote write is      *)
(* sent: once a click was handled and its request is on its way, the local *)
(* level of the item is the new level.                                     *)
C24_OptimisticOrdering ==
  lastOp.op = "click"
    => \A w \in inflight :
         w.id = lastOp.arg
           => levelAt(taskData, w.today, w.task) = w.newLevel

(* C25: when the user has stopped toggling and every remote write has been *)
(* answered or has failed, the local level of every item of today's record *)
(* is the level the remote store holds for it.                             *)
C25_EventualConsistency ==
  (input.kind = "store" /\ input.left < MaxEvents)
    => \A t \in TaskIds : currentLevelOf(input.day, t) = input.remote[t]

(* The class the live state of today gives.                                *)
LiveClass(i) ==
  IF \A k \in DOMAIN i.catalog : IsTaskCompleted(i, i.catalog[k])
  THEN "completed"
  ELSE IF CompletedTasks(i) # {} THEN "partial"
  ELSE "none"

(* C26: the summary of today in the aggregation reflects the live state,   *)
(* whatever the fetched history holds for today: nothing yet, an entry     *)
(* without the latest change, or the current levels.                       *)
C26_TodayLive ==
  output.kind = "today"
    => /\ output.monthly = LiveClass(input)
       /\ output.second = LiveClass(input)

(* The sum of the levels of every item of today: the level of a task       *)
(* without activities, the level of each activity of the others.           *)
TotalStars(i) ==
  SumKeys(i.levels, {t \in Range(i.catalog) : i.cfg[t] = Flat})
    + SumStars(ActivityKeys(i.catalog, i.cfg), i.act, {})

(* C27: the star total of a day is the sum of the levels of its items and  *)
(* of nothing else; with reading at 2, exercise at 3 and caring at 1 it is *)
(* 6.                                                                      *)
C27_TotalStars ==
  (output.kind = "progress" /\ output.failed = {})
    => /\ output.stats.totalStars = TotalStars(input)
       /\ (\A t \in Range(input.catalog) : input.cfg[t] = Flat)
            => output.second.totalStars = TotalStars(input)

(* C28: every level stored in a record is an integer of 0..3, whether it   *)
(* was written by a toggle or by the reconcile from the remote status.     *)
C28_LevelRange ==
  output.kind \in {"request", "reconcile"}
    => \A t \in DOMAIN output.res.day.levels :
         output.res.day.levels[t] \in 0..NumLevels

(* The config request failed: the page runs on the fallback of loadConfig. *)
Fallback == users = {"alice"}

FallbackCatalog ==
  Fallback => /\ currentUser = "alice"
              /\ tasks = FallbackTasks
              /\ \A t \in Range(FallbackTasks) : taskLevels[t] = Levels

(* A click on any star of a built-in task gets past the read of today's    *)
(* record, as long as the date is the one the last checkNewDay saw.        *)
FallbackToggleReady ==
  (Fallback /\ pc = "idle" /\ taskData.currentDate = now)
    => now \in DOMAIN taskData.daily

(* ... and its write, once answered with success, is in the record.        *)
FallbackToggleApplied ==
  (Fallback /\ lastOp'.op = "resolve" /\ lastOp'.arg.w \in inflight
     /\ lastOp'.arg.outcome = "success"
     /\ lastOp'.arg.w.today \in DOMAIN taskData.daily)
    => /\ lastOp'.arg.w.task \in Range(FallbackTasks)
       /\ levelAt(taskData', lastOp'.arg.w.today, lastOp'.arg.w.task)
            = lastOp'.arg.w.newLevel

(* C29: when the config request fails the page goes on with the built-in   *)
(* catalog reading, exercise, caring for the single user alice, init runs  *)
(* to its end, and toggles on these tasks are accepted.                    *)
C29_ConfigFallback ==
  /\ [](FallbackCatalog /\ FallbackToggleReady)
  /\ [][FallbackToggleApplied]_vars
  /\ (Fallback ~> (Fallback /\ pc = "idle"))

(* The fallback is running, init is over, and a star of a built-in task    *)
(* was written.                                                            *)
C29_Witness ==
  /\ Fallback
  /\ pc = "idle"
  /\ lastOp.op = "resolve"
  /\ lastOp.arg.outcome = "success"
  /\ lastOp.arg.w.task = "caring"
  /\ levelAt(taskData, now, "caring") = NumLevels

NoteStep == lastOp'.op \in {"noteSave", "noteEdit", "noteCancel"}

(* C30: saving, editing or cancelling a note, whatever the answer of the   *)
(* remote call, leaves every level, the completed lists, the streak, the   *)
(* star totals and the ledger as they were, in the page and in the cache.  *)
C30_NotesIndependent ==
  [][NoteStep =>
       /\ taskData' = taskData
       /\ storage' = storage
       /\ SumLevels(dayOrEmpty(taskData', now), tasks)
            = SumLevels(dayOrEmpty(taskData, now), tasks)]_vars

(* A note of a task was saved after a star of the task had been written.   *)
C30_Witness ==
  /\ lastOp.op = "noteSave"
  /\ lastOp.arg.outcome = "success"
  /\ lastOp.arg.task = "reading"
  /\ input.area["reading"].content = "a"
  /\ levelAt(taskData, now, "reading") = NumLevels
  /\ Includes(taskData.achievements, "first_star")

(* C31: the streak walk looks at no more than the 365 days before today:   *)
(* for every history, however long its run of complete days, the walk      *)
(* ends with a streak between 0 and 365, and the streak is settled by the  *)
(* days today-1 .. today-365 alone (the length of the run of qualifying    *)
(* days inside that window).                                               *)
C31_BoundedLookback ==
  output.kind = "streak"
    => /\ output.streak \in 0..LookbackDays
       /\ \E k \in 0..LookbackDays :
            /\ \A j \in 1..k : Qualifies(input, j)
            /\ k < LookbackDays => ~Qualifies(input, k + 1)
            /\ output.streak = k

(* More than 365 complete days before today: the walk stops at 365.        *)
C31_Witness ==
  /\ output.kind = "streak"
  /\ \A j \in 1..(LookbackDays + MaxHistoryDays) : Qualifies(input, j)
  /\ output.streak = LookbackDays

(* The dates that have a record in the store of a user.                    *)
DatesOf(store, u) ==
  IF store[u] = NoData THEN {} ELSE DOMAIN store[u].daily

(* No step removes a date from the store of a user.                        *)
DatesOnlyGrow ==
  \A u \in DOMAIN storage : DatesOf(storage, u) \subseteq DatesOf(storage', u)

(* The record of a day that has ended keeps its levels in the store.       *)
EndedDaysKeepLevels ==
  \A u \in DOMAIN storage :
    \A d \in DatesOf(storage, u) :
      (d < now /\ d \in DatesOf(storage', u))
        => storage'[u].daily[d].levels = storage[u].daily[d].levels

(* C32: across toggles, reconciles and day rollovers the set of dates with *)
(* a record in the store of a user only grows, and the record of a date    *)
(* before today keeps the levels it had when its day ended.                *)
C32_NoRecordDeleted == [][DatesOnlyGrow /\ EndedDaysKeepLevels]_vars

(* The stars of the days of the window, each date once: the days before    *)
(* today and the levels of today.                                          *)
WindowStars(i) ==
  i.days * Len(i.catalog) + SumKeys(i.levels, Range(i.catalog))

(* C34: the 365-day star total is the sum over the distinct dates of the   *)
(* window of the stars of that date: the stars of today are counted once,  *)
(* also when the fetched history has an entry for today.                   *)
C34_StarsCountedOnce ==
  output.kind = "stars365" => output.total = WindowStars(input)

MaxPageEvents == 3

QuestionIds == {"q1", "q2", "q3"}

(* The lists GET /api/todo/questions serves; difficulty "" is a question   *)
(* without one.                                                            *)
QuestionLists ==
  {<<[day |-> 1, question_id |-> "q1", difficulty |-> "Hard"],
     [day |-> 1, question_id |-> "q2", difficulty |-> "Easy"],
     [day |-> 2, question_id |-> "q3", difficulty |-> ""]>>,
   <<[day |-> 2, question_id |-> "q1", difficulty |-> "Medium"]>>}

(* difficultyOrder[a.difficulty || 'Medium']                               *)
difficultyOrder(q) ==
  IF q.difficulty = "Easy" THEN 1 ELSE IF q.difficulty = "Hard" THEN 3 ELSE 2

(* questions.sort by difficultyOrder: a stable sort.                       *)
sortByDifficulty(questions) ==
  SelectSeq(questions, LAMBDA q : difficultyOrder(q) = 1)
  \o SelectSeq(questions, LAMBDA q : difficultyOrder(q) = 2)
  \o SelectSeq(questions, LAMBDA q : difficultyOrder(q) = 3)

processQuestions(questions) ==
  [d \in {questions[i].day : i \in DOMAIN questions} |->
     LET ofDay == SelectSeq(questions, LAMBDA q : q.day = d)
     IN [dayNumber   |-> d,
         questions   |-> sortByDifficulty(
                           [i \in DOMAIN ofDay |->
                              [id |-> ofDay[i].question_id,
                               difficulty |-> ofDay[i].difficulty,
                               completed |-> FALSE]]),
         total       |-> Len(ofDay),
         completed   |-> 0,
         isCompleted |-> FALSE,
         isCollapsed |-> FALSE]]

(* A mutant of updateDayStats: the day is counted from the flags the       *)
(* questions had before the call.                                          *)
updateDayStatsCountsOldFlags(days, completedQuestions) ==
  [d \in DOMAIN days |->
     LET day == days[d]
         completed == Cardinality({i \in DOMAIN day.questions :
                                     day.questions[i].completed})
         isCompleted == completed = day.total /\ day.total > 0
     IN [dayNumber   |-> day.dayNumber,
         questions   |-> sortByDifficulty(
                           [i \in DOMAIN day.questions |->
                              [day.questions[i] EXCEPT
                                 !.completed = @ \/ day.questions[i].id
                                                      \in completedQuestions]]),
         total       |-> day.total,
         completed   |-> completed,
         isCompleted |-> isCompleted,
         isCollapsed |-> day.isCollapsed \/ isCompleted]]

updateDayStats(days, completedQuestions) ==
  [d \in DOMAIN days |->
     LET day == days[d]
         completed == Cardinality({i \in DOMAIN day.questions :
                                     day.questions[i].id \in completedQuestions})
         isCompleted == completed = day.total /\ day.total > 0
     IN [dayNumber   |-> day.dayNumber,
         questions   |-> sortByDifficulty(
                           [i \in DOMAIN day.questions |->
                              [day.questions[i] EXCEPT
                                 !.completed = day.questions[i].id
                                                 \in completedQuestions]]),
         total       |-> day.total,
         completed   |-> completed,
         isCompleted |-> isCompleted,
         isCollapsed |-> IF isCompleted /\ ~day.isCollapsed THEN TRUE
                         ELSE day.isCollapsed]]

toggleDay(days, dayNumber) ==
  IF dayNumber \in DOMAIN days
  THEN [days EXCEPT ![dayNumber].isCollapsed = ~@]
  ELSE days

(* completedQuestions.has(id) ? delete(id) : add(id)                       *)
flipQuestion(completedQuestions, questionId) ==
  IF questionId \in completedQuestions
  THEN completedQuestions \ {questionId}
  ELSE completedQuestions \cup {questionId}

(* A mutant of revertQuestion: the catch branch puts back the status the   *)
(* call read when it started.                                              *)
revertQuestionToRead(completedQuestions, w) ==
  IF w.newStatus THEN completedQuestions \ {w.item}
  ELSE completedQuestions \cup {w.item}

(* The catch branch of toggleQuestion: flips whatever the set holds now.   *)
revertQuestion(completedQuestions, w) ==
  flipQuestion(completedQuestions, w.item)

(* The variables of the tracker page stay as they are while another page   *)
(* runs; pc, inflight, events and lastOp are used by the page.             *)
PageInit ==
  /\ now = 1
  /\ users = {}
  /\ currentUser = "alice"
  /\ tasks = <<>>
  /\ taskLevels = <<>>
  /\ storage = [u \in Range(Users) |-> NoData]
  /\ taskData = NoData
  /\ inflight = {}
  /\ shown = <<>>
  /\ events = 0
  /\ lastOp = Op("init", <<>>)
  /\ output = NoOutput

pageRest == <<now, users, currentUser, tasks, taskLevels, storage, taskData,
              shown, output>>

(* The component as todoApp() returns it; init() is at its first await.    *)
TodoInit ==
  /\ PageInit
  /\ pc = "loadQuestions"
  /\ input = [kind |-> "todo", days |-> <<>>, completedQuestions |-> {},
              error |-> FALSE, timers |-> 0, base |-> {},
              succeeded |-> [q \in QuestionIds |-> 0], given |-> <<>>]

QuestionResponses ==
  {[kind |-> "error", questions |-> <<>>]}
  \cup {[kind |-> "questions", questions |-> l] : l \in QuestionLists}

(* await this.loadQuestions()                                              *)
LoadQuestions ==
  /\ input.kind = "todo"
  /\ pc = "loadQuestions"
  /\ \E r \in QuestionResponses :
       /\ input' = IF r.kind = "questions"
                   THEN [input EXCEPT !.days = processQuestions(r.questions)]
                   ELSE [input EXCEPT !.error = TRUE]
       /\ lastOp' = Op("loadQuestions", r.kind)
  /\ pc' = "loadCompletionStatus"
  /\ UNCHANGED <<pageRest, inflight, events>>

CompletionResponses ==
  {[kind |-> "error", completed |-> {}]}
  \cup {[kind |-> "completed", completed |-> c] :
          c \in {{}, {"q1"}, {"q1", "q2"}, QuestionIds}}

(* await this.loadCompletionStatus(); this.updateDayStats(); loading is    *)
(* false from here on and the list is shown.                               *)
LoadCompletionStatus ==
  /\ input.kind = "todo"
  /\ pc = "loadCompletionStatus"
  /\ \E r \in CompletionResponses :
       LET completed == IF r.kind = "completed" THEN r.completed
                        ELSE input.completedQuestions
       IN /\ input' = [input EXCEPT
                         !.completedQuestions = completed,
                         !.days = updateDayStats(input.days, completed),
                         !.base = completed]
          /\ lastOp' = Op("loadCompletionStatus", r.kind)
  /\ pc' = "ready"
  /\ UNCHANGED <<pageRest, inflight, events>>

(* toggleQuestion up to its fetch: the optimistic update.                  *)
ToggleQuestion ==
  /\ input.kind = "todo"
  /\ pc = "ready"
  /\ events < MaxPageEvents
  /\ Cardinality(inflight) < MaxInFlight
  /\ \E d \in DOMAIN input.days :
       \E i \in DOMAIN input.days[d].questions :
         LET questionId == input.days[d].questions[i].id
             completed == flipQuestion(input.completedQuestions, questionId)
             w == [id |-> events + 1, item |-> questionId,
                   newStatus |-> questionId \notin input.completedQuestions,
                   overlap |-> \E v \in inflight : v.item = questionId]
         IN /\ input' = [input EXCEPT
                           !.completedQuestions = completed,
                           !.days = updateDayStats(input.days, completed)]
            /\ inflight' = inflight \cup {w}
            /\ lastOp' = Op("toggleQuestion", w.id)
  /\ events' = events + 1
  /\ UNCHANGED <<pageRest, pc>>

(* The response of POST /api/todo/toggle: nothing more on success; a       *)
(* failed request, a non-OK status or success = false reach the catch      *)
(* branch.                                                                 *)
ToggleQuestionDone ==
  /\ input.kind = "todo"
  /\ \E w \in inflight, outcome \in Outcomes :
       /\ IF outcome = "success"
          THEN input' = [input EXCEPT !.succeeded[w.item] = @ + 1]
          ELSE LET completed == revertQuestion(input.completedQuestions, w)
               IN input' = [input EXCEPT
                              !.completedQuestions = completed,
                              !.days = updateDayStats(input.days, completed),
                              !.error = TRUE,
                              !.timers = @ + 1]
       /\ inflight' = inflight \ {w}
       /\ lastOp' = Op("toggleQuestionDone", [w |-> w, outcome |-> outcome])
  /\ UNCHANGED <<pageRest, pc, events>>

(* setTimeout(() => { this.error = null }, 3000)                           *)
ErrorTimeout ==
  /\ input.kind = "todo"
  /\ input.timers > 0
  /\ input' = [input EXCEPT !.error = FALSE, !.timers = @ - 1]
  /\ lastOp' = Op("errorTimeout", <<>>)
  /\ UNCHANGED <<pageRest, pc, inflight, events>>

(* The header of a day is clicked.                                         *)
ToggleDay ==
  /\ input.kind = "todo"
  /\ pc = "ready"
  /\ events < MaxPageEvents
  /\ \E d \in DOMAIN input.days :
       LET days == toggleDay(input.days, d)
       IN /\ input' = [input EXCEPT
                         !.days = days,
                         !.given = (d :> days[d].isCollapsed) @@ input.given]
          /\ lastOp' = Op("toggleDay", d)
  /\ events' = events + 1
  /\ UNCHANGED <<pageRest, pc, inflight>>

TodoNext ==
  \/ LoadQuestions
  \/ LoadCompletionStatus
  \/ ToggleQuestion
  \/ ToggleQuestionDone
  \/ ErrorTimeout
  \/ ToggleDay

TodoSpec == TodoInit /\ [][TodoNext]_vars

(* The questions of a day that are in the completed set.                   *)
CompletedOfDay(day, completedQuestions) ==
  {i \in DOMAIN day.questions : day.questions[i].id \in completedQuestions}

(* C35: once init() has loaded the completion status, and after every      *)
(* toggleQuestion, whether its write succeeded or failed: the count of a   *)
(* day is the number of its questions in completedQuestions, the day is    *)
(* completed exactly when it has questions and all are counted, and the    *)
(* flag of every question tells whether its id is in the set.              *)
C35_DayStatistics ==
  (input.kind = "todo" /\ pc = "ready")
    => \A d \in DOMAIN input.days :
         LET day == input.days[d]
         IN /\ day.completed
                 = Cardinality(CompletedOfDay(day, input.completedQuestions))
            /\ day.isCompleted
                 <=> (day.total > 0 /\ day.completed = day.total)
            /\ \A i \in DOMAIN day.questions :
                 day.questions[i].completed
                   <=> day.questions[i].id \in input.completedQuestions

(* A toggle completed a day and failed: the day is counted as it was       *)
(* before.                                                                 *)
C35_Witness ==
  /\ input.kind = "todo"
  /\ lastOp.op = "toggleQuestionDone"
  /\ lastOp.arg.outcome = "error"
  /\ lastOp.arg.w.newStatus
  /\ 1 \in DOMAIN input.days
  /\ input.days[1].total = 2
  /\ input.days[1].completed = 1
  /\ ~input.days[1].isCompleted

(***************************************************************************)
(* The activity page (index-app.js).  The component lives in `input`:      *)
(*   activities    <<task, activity>> -> completed, empty before the       *)
(*                 config is loaded                                        *)
(*   currentMonth, currentYear   a number or null                          *)
(*   calendar      the month calendarHtml was rendered for                 *)
(*   error         the error message is set                                *)
(* and base and succeeded as for the todo page.  streak and totalStars365  *)
(* only copy what GET /api/stats serves and are left out.                  *)
(***************************************************************************)
PageActivities == {<<"reading", "a1">>, <<"reading", "a2">>}

(* A number or null: null is read as 0 by ++ and --, and is never === to a *)
(* number.                                                                 *)
Null == [set |-> FALSE, n |-> 0]

Num(k) == [set |-> TRUE, n |-> k]

(* The date GET /api/day/completions serves.                               *)
ServerDates == {[month |-> m, year |-> 2025] : m \in {0, 5, 11}}

(* renderCalendar reads currentYear and currentMonth and fetches the       *)
(* history; a failed request gives the error text.                         *)
renderCalendar(app, ok) ==
  [app EXCEPT !.calendar = [month |-> app.currentMonth,
                            year |-> app.currentYear, failed |-> ~ok]]

previousMonth(app) ==
  IF app.currentMonth = Num(0)
  THEN [app EXCEPT !.currentMonth = Num(11), !.currentYear = Num(@.n - 1)]
  ELSE [app EXCEPT !.currentMonth = Num(@.n - 1)]

nextMonth(app) ==
  IF app.currentMonth = Num(11)
  THEN [app EXCEPT !.currentMonth = Num(0), !.currentYear = Num(@.n + 1)]
  ELSE [app EXCEPT !.currentMonth = Num(@.n + 1)]

(* activityObj.completed = !activityObj.completed                          *)
flipActivity(activities, key) == [activities EXCEPT ![key] = ~@]

(* The component as Alpine.data returns it; init() is at its first await.  *)
ActivityInit ==
  /\ PageInit
  /\ pc = "loadConfig"
  /\ input = [kind |-> "activity", activities |-> <<>>,
              currentMonth |-> Null, currentYear |-> Null,
              calendar |-> [month |-> Null, year |-> Null, failed |-> FALSE],
              error |-> FALSE, base |-> <<>>,
              succeeded |-> [k \in PageActivities |-> 0]]

(* await this.loadConfig(): a failed request or a non-OK answer throws,    *)
(* init() sets the error and ends.                                         *)
ActivityLoadConfig ==
  /\ input.kind = "activity"
  /\ pc = "loadConfig"
  /\ \E ok \in BOOLEAN :
       /\ input' = IF ok
                   THEN [input EXCEPT
                           !.activities = [k \in PageActivities |-> FALSE]]
                   ELSE [input EXCEPT !.error = TRUE]
       /\ pc' = IF ok THEN "loadData" ELSE "ready"
       /\ lastOp' = Op("loadConfig", IF ok THEN "ok" ELSE "error")
  /\ UNCHANGED <<pageRest, inflight, events>>

DataResponses ==
  {[kind |-> k, date |-> [month |-> 0, year |-> 2025],
    completions |-> [a \in PageActivities |-> FALSE]] :
     k \in {"error", "notok"}}
  \cup {[kind |-> "ok", date |-> d, completions |-> c] :
          d \in ServerDates,
          c \in {[a \in PageActivities |-> FALSE],
                 [a \in PageActivities |-> a[2] = "a1"]}}

(* await this.loadData(), then updateStats and renderCalendar: an answer   *)
(* that is not OK is passed over, a failed request throws and init() sets  *)
(* the error.                                                              *)
ActivityLoadData ==
  /\ input.kind = "activity"
  /\ pc = "loadData"
  /\ \E r \in DataResponses, rendered \in BOOLEAN :
       LET loaded ==
             IF r.kind = "ok"
             THEN [input EXCEPT
                     !.currentMonth = IF @ = Null THEN Num(r.date.month) ELSE @,
                     !.currentYear = IF input.currentMonth = Null
                                     THEN Num(r.date.year) ELSE @,
                     !.activities = r.completions]
             ELSE input
           shown1 == IF r.kind = "error" THEN [loaded EXCEPT !.error = TRUE]
                     ELSE renderCalendar(loaded, rendered)
       IN /\ input' = [shown1 EXCEPT !.base = shown1.activities]
          /\ lastOp' = Op("loadData", r.kind)
  /\ pc' = "ready"
  /\ UNCHANGED <<pageRest, inflight, events>>

(* toggleActivity up to its fetch.                                         *)
PageToggleActivity ==
  /\ input.kind = "activity"
  /\ pc = "ready"
  /\ events < MaxPageEvents
  /\ Cardinality(inflight) < MaxInFlight
  /\ \E key \in DOMAIN input.activities :
       LET activities == flipActivity(input.activities, key)
           w == [id |-> events + 1, item |-> key,
                 newStatus |-> activities[key],
                 overlap |-> \E v \in inflight : v.item = key]
       IN /\ input' = [input EXCEPT !.activities = activities]
          /\ inflight' = inflight \cup {w}
          /\ lastOp' = Op("toggleActivity", w.id)
  /\ events' = events + 1
  /\ UNCHANGED <<pageRest, pc>>

(* The response of POST /api/activity/toggle: an OK answer is followed by  *)
(* updateStats and renderCalendar, a non-OK answer or a failed request by  *)
(* the revert.  The body of the answer is not read.                        *)
PageToggleActivityDone ==
  /\ input.kind = "activity"
  /\ \E w \in inflight, outcome \in {"success", "error"}, rendered \in BOOLEAN :
       /\ IF outcome = "success"
          THEN input' = [renderCalendar(input, rendered) EXCEPT
                           !.succeeded[w.item] = @ + 1]
          ELSE /\ rendered
               /\ input' = [input EXCEPT
                              !.activities = flipActivity(@, w.item)]
       /\ inflight' = inflight \ {w}
       /\ lastOp' = Op("toggleActivityDone", [w |-> w, outcome |-> outcome])
  /\ UNCHANGED <<pageRest, pc, events>>

PreviousMonth ==
  /\ input.kind = "activity"
  /\ pc = "ready"
  /\ events < MaxPageEvents
  /\ \E rendered \in BOOLEAN :
       input' = renderCalendar(previousMonth(input), rendered)
  /\ lastOp' = Op("previousMonth", <<>>)
  /\ events' = events + 1
  /\ UNCHANGED <<pageRest, pc, inflight>>

NextMonth ==
  /\ input.kind = "activity"
  /\ pc = "ready"
  /\ events < MaxPageEvents
  /\ \E rendered \in BOOLEAN :
       input' = renderCalendar(nextMonth(input), rendered)
  /\ lastOp' = Op("nextMonth", <<>>)
  /\ events' = events + 1
  /\ UNCHANGED <<pageRest, pc, inflight>>

ActivityNext ==
  \/ ActivityLoadConfig
  \/ ActivityLoadData
  \/ PageToggleActivity
  \/ PageToggleActivityDone
  \/ PreviousMonth
  \/ NextMonth

ActivitySpec == ActivityInit /\ [][ActivityNext]_vars

(* Both pages: the todo page or the activity page is opened.               *)
PagesSpec == (TodoInit \/ ActivityInit) /\ [][TodoNext \/ ActivityNext]_vars

Calendar(app) == <<app.currentMonth, app.currentYear>>

(* C37: after any sequence of previousMonth and nextMonth the month is one *)
(* of 0..11; nextMonth then previousMonth, and previousMonth then          *)
(* nextMonth, give back the same month and year; nextMonth from month 11   *)
(* gives month 0 of the next year and previousMonth from month 0 gives     *)
(* month 11 of the year before.                                            *)
C37_MonthNavigation ==
  (input.kind = "activity" /\ lastOp.op \in {"previousMonth", "nextMonth"})
    => /\ input.currentMonth.set
       /\ input.currentMonth.n \in 0..11
       /\ Calendar(previousMonth(nextMonth(input))) = Calendar(input)
       /\ Calendar(nextMonth(previousMonth(input))) = Calendar(input)
       /\ input.currentMonth.n = 11
            => Calendar(nextMonth(input))
                 = <<Num(0), Num(input.currentYear.n + 1)>>
       /\ input.currentMonth.n = 0
            => Calendar(previousMonth(input))
                 = <<Num(11), Num(input.currentYear.n - 1)>>

Odd(n) == n % 2 = 1

(* What the calls whose write was accepted make of the state init() ended  *)
(* with: each of them toggles the item once.                               *)
AfterSucceeded(before, n) == IF Odd(n) THEN ~before ELSE before

CompletedDaysCollapsed ==
  (input.kind = "todo"
   /\ \/ lastOp.op \in {"loadCompletionStatus", "toggleQuestion"}
      \/ (lastOp.op = "toggleQuestionDone" /\ lastOp.arg.outcome # "success"))
    => \A d \in DOMAIN input.days :
         input.days[d].isCompleted => input.days[d].isCollapsed

(* toggleDay flips the named day and leaves every other day alone.         *)
ToggleDayFlipsOne ==
  (input.kind = "todo" /\ lastOp'.op = "toggleDay")
    => \A d \in DOMAIN input.days :
         /\ input'.days[d].questions = input.days[d].questions
         /\ input'.days[d].isCollapsed
              = IF d = lastOp'.arg THEN ~input.days[d].isCollapsed
                ELSE input.days[d].isCollapsed

(* A day that is not completed is collapsed or open as the user last left  *)
(* it.                                                                     *)
OpenDaysAsGiven ==
  (input.kind = "todo" /\ pc = "ready")
    => \A d \in DOMAIN input.given :
         ~input.days[d].isCompleted
           => input.days[d].isCollapsed = input.given[d]

(* C38: after every updateDayStats every day whose questions are all       *)
(* completed is collapsed; toggleDay flips isCollapsed of the named day    *)
(* and of no other; a day that is not completed keeps the collapse state   *)
(* the user last gave it across the toggleQuestion calls that follow.      *)
C38_AutoCollapse ==
  /\ [](CompletedDaysCollapsed /\ OpenDaysAsGiven)
  /\ [][ToggleDayFlipsOne]_vars
====
